---- MODULE Spec2Model ----
(***************************************************************************)
(* Upload engine of KarpelesLab/rest (src/upload.go, second copy of the    *)
(* file, lines 656-1525, and the gate numeralWaitGroup of src/spot.go).    *)
(*                                                                         *)
(* The caller's goroutine runs PrepareUpload, optionally sets the public   *)
(* fields, and calls Do.  Do selects the single-shot PUT, the chunked PUT  *)
(* (partUpload) or the cloud multipart (awsUpload) orchestrator.  Every    *)
(* part is a goroutine (partUploadPart / awsUploadPart) that spools a      *)
(* slice of the source and then runs its retry loop.                       *)
(***************************************************************************)
EXTENDS Integers, Sequences, FiniteSets, TLC

VARIABLES
    req,        \* the descriptor map received from the server
    ln,         \* the declared length passed to Do
    stream,     \* the content of the caller's byte source f
    grain,      \* bytes per element of stream
    src,        \* what is left to read from f
    u,          \* the UploadInfo
    pc,         \* position of the caller's goroutine
    strategy,   \* which branch Do took
    partNo,     \* partUpload/awsUpload: partNo
    cnt,        \* numeralWaitGroup.cnt
    joiner,     \* the goroutine started after the dispatch loop
    errCh,      \* errCh, a channel of capacity 2
    parts,      \* the part goroutines
    puts,       \* bodies of the single-shot PUT requests sent
    finals,     \* bodies of the finalize requests sent
    finState,   \* outcome of awsFinalize
    aborts,     \* number of awsAbort calls
    tagOrder,   \* the parts of the first and of the latest setTag call
    notified,   \* number of complete() calls
    ret,        \* what Do (or PrepareUpload) returned
    faults,     \* failures the environment may still inject
    env,        \* the kinds of failure the environment produces
    source,     \* the caller's byte source: paused or not, pauses so far
    progress,   \* calls of the progress callback, by part (0: single PUT)
    nwg,        \* numeralWaitGroup: lock, condition queue, callers
    obs,        \* whether a failed turn leaves its kind and delay on record
    sr,         \* a stallDetectReader, its caller and the reader it wraps
    rq,         \* awsReq on its own: the call under way, the RPCs and requests made
    tg          \* the part-tag table on its own: the gate, the parts, the table

vars == <<req, ln, stream, grain, src, u, pc, strategy, partNo, cnt, joiner,
          errCh, parts, puts, finals, finState, aborts, tagOrder, notified,
          ret, faults, env, source, progress, nwg, obs, sr, rq, tg>>

---------------------------------------------------------------------------
(* Bounds of the model *)

\* longest stream, in bytes, and longest stream counted in MiB
MaxLen == 2
MaxCloudLen == 3
\* largest Blocksize a descriptor carries, in bytes
MaxBlock == 2
\* largest ParallelUploads / MaxPartSize the caller sets by hand
MaxParallel == 2
MaxPartMiB == 1
\* failures injected over one upload
MaxFaults == 5
\* goroutines calling the gate at once
MaxCallers == 2
\* longest stream of the uploads whose retry turns are on record
MaxRetryLen == 1
\* times the byte source stops producing bytes for a while
MaxPauses == 1
\* Read calls made on one stallDetectReader
MaxReads == 3
\* calls of awsReq followed on their own
MaxCalls == 2
\* times the newest part in flight of the part-tag table ends first
MaxOvertakes == 1

(* Program constants *)
\* stallTimeout, in seconds, and stallThreshold, in bytes
stallTimeout == 30
stallThreshold == 153600
maxRetries == 5
DefaultMaxPartSize == 1024
DefaultParallelUploads == 3
errChCap == 2
\* (variant: the join waits as the loop does, nwg.Wait(DefaultParallelUploads-1))
JoinLimitLoop == DefaultParallelUploads - 1
\* nwg.Wait(0)
JoinLimit == 0
AwsMinMiB == 64
PutMaxMiB == 5120
MiB == 1048576

MaxParts == (IF MaxLen > MaxCloudLen THEN MaxLen ELSE MaxCloudLen) + 1

Min(a, b) == IF a < b THEN a ELSE b

---------------------------------------------------------------------------
(* JSON values of the descriptor: v.(string) succeeds iff v.t = "string",  *)
(* v.(float64) iff v.t = "number", v.(map[string]any) iff v.t = "object".  *)

JAbsent == [t |-> "absent", s |-> "", n |-> 0]
JStr(x) == [t |-> "string", s |-> x, n |-> 0]
JNum(k) == [t |-> "number", s |-> "", n |-> k]

NoBucket(t) == [t |-> t, Region |-> JAbsent, Name |-> JAbsent, Host |-> JAbsent]

\* an optional string field: present, missing, or of another type
OptStr(x) == {JStr(x), JAbsent, JNum(7)}

Buckets ==
    {NoBucket("absent"), NoBucket("string")} \cup
    [t : {"object"}, Region : OptStr("r"), Name : OptStr("n"), Host : OptStr("h")]

Descriptors ==
    [PUT : {JStr("put"), JAbsent},
     Complete : {JStr("cmpl"), JAbsent},
     Blocksize : {JAbsent, JStr("2")} \cup {JNum(k) : k \in -1..MaxBlock},
     Cloud_Aws_Bucket_Upload__ : OptStr("id"),
     Key : OptStr("k"),
     Bucket_Endpoint : Buckets]

(* A length: ln = -1 is Unknown; a known length is mib * 2^20 + rem bytes  *)
(* (two digits, as 5 GiB does not fit the 32-bit integers of TLC).         *)
Unknown == [known |-> FALSE, mib |-> 0, rem |-> 0]
Known(m, r) == [known |-> TRUE, mib |-> m, rem |-> r]
IsZero(l) == l.known /\ l.mib = 0 /\ l.rem = 0
\* l > k * 1024 * 1024
GtMiB(l, k) == l.known /\ (l.mib > k \/ (l.mib = k /\ l.rem > 0))

Lengths ==
    {Unknown, Known(0, 0), Known(0, 1),
     Known(AwsMinMiB - 1, MiB - 1), Known(AwsMinMiB, 0), Known(AwsMinMiB, 1),
     Known(PutMaxMiB - 1, MiB - 1), Known(PutMaxMiB, 0), Known(PutMaxMiB, 1)}

---------------------------------------------------------------------------
(* UploadInfo *)

NewUploadInfo ==
    [put |-> "", cmpl |-> "",
     MaxPartSize |-> DefaultMaxPartSize,
     ParallelUploads |-> DefaultParallelUploads,
     blocksize |-> 0,
     awsid |-> "", awskey |-> "", awsregion |-> "", awsname |-> "", awshost |-> "",
     awsuploadid |-> "", awstags |-> <<>>, awstagsCap |-> 0]

\* v, ok := x.(string)
StrOf(v) == IF v.t = "string" THEN v.s ELSE ""
IsStr(v) == v.t = "string"

Out(o, info) == [outcome |-> o, u |-> info]

\* the cloud group once Cloud_Aws_Bucket_Upload__ is a string
parseCloud(u0, r) ==
    LET b == r.Bucket_Endpoint
        u1 == [u0 EXCEPT !.awskey = StrOf(r.Key)]
        u2 == [u1 EXCEPT !.awsregion = StrOf(b.Region)]
        u3 == [u2 EXCEPT !.awsname = StrOf(b.Name)]
        u4 == [u3 EXCEPT !.awshost = StrOf(b.Host)]
    IN  IF b.t # "object" THEN Out("ok", u0)
        ELSE IF ~IsStr(r.Key) THEN Out("ok", u1)
        ELSE IF ~IsStr(b.Region) THEN Out("ok", u2)
        \* bucket["Name"].(string) and bucket["Host"].(string) are the
        \* one-value form of the assertion: they panic on a failure
        ELSE IF ~IsStr(b.Name) THEN Out("panic", u2)
        ELSE IF ~IsStr(b.Host) THEN Out("panic", u3)
        ELSE Out("ok", [u4 EXCEPT !.awsid = r.Cloud_Aws_Bucket_Upload__.s])

\* Blocksize is looked at only when there is no cloud id
parseBlocksize(u0, r) ==
    IF r.Blocksize.t = "number"
    THEN Out("ok", [u0 EXCEPT !.blocksize = r.Blocksize.n])
    ELSE Out("ok", u0)

parse(u0, r) ==
    LET u1 == [u0 EXCEPT !.put = StrOf(r.PUT)]
        u2 == [u1 EXCEPT !.cmpl = StrOf(r.Complete)]
    IN  IF ~IsStr(r.PUT) THEN Out("error", u1)
        ELSE IF ~IsStr(r.Complete) THEN Out("error", u2)
        ELSE IF ~IsStr(r.Cloud_Aws_Bucket_Upload__) THEN parseBlocksize(u2, r)
        ELSE parseCloud(u2, r)

---------------------------------------------------------------------------
(* Do: the selection *)

\* (variant: ln >= 64*1024*1024)
awsLengthInclusive(l) == ~l.known \/ l.mib >= AwsMinMiB

\* ln == -1 || ln > 64*1024*1024
awsLength(l) == ~l.known \/ GtMiB(l, AwsMinMiB)

\* ln == -1 || ln > 5*1024*1024*1024
putRefused(l) == ~l.known \/ GtMiB(l, PutMaxMiB)

DoSelect(info, l) ==
    IF info.blocksize > 0 THEN "chunked"
    ELSE IF info.awsid # "" /\ awsLength(l) THEN "aws"
    ELSE IF putRefused(l) THEN "cfgerr"
    ELSE "put"

\* error values: the nil error, io.EOF, and the failures, with the part
\* whose goroutine reported them (0: none)
Err(kind, k) == [kind |-> kind, part |-> k]
Nil == Err("nil", 0)
EOF == Err("EOF", 0)

\* (*Response, error) as returned to the caller
NoRet == [set |-> FALSE, resp |-> "nil", err |-> Nil]
Return(r, e) == [set |-> TRUE, resp |-> r, err |-> e]

\* the ETag the storage backend answers for a part body
Etag(body) == <<0>> \o body

\* no Content-Range header
NoRange == [start |-> -1, end |-> -1]

Idle == [pc |-> "idle", n |-> 0, spool |-> <<>>, off |-> 0, attempt |-> 0,
         tries |-> 0, rd |-> Nil, cont |-> FALSE, res |-> "none",
         body |-> <<>>, last |-> "none", slept |-> 0, range |-> NoRange,
         tmpf |-> "none"]

\* the environment makes one more request or system call fail
Inject(kind) ==
    /\ kind \in env
    /\ faults > 0
    /\ faults' = faults - 1

\* the callback has not been called for any part, nor for the single PUT (0)
NoProgress == [k \in 0..MaxParts |-> <<>>]
\* progressFunc(n), called by the goroutine of part k
Report(pr, k, n) == [pr EXCEPT ![k] = Append(@, n)]
\* a length in bytes
Bytes(l) == l.mib * MiB + l.rem

\* the gate before any call: lock free, nobody waiting, callers idle
NoCaller == [pc |-> "idle", arg |-> 0, parked |-> FALSE]
FreshGate == [readers |-> 0, writer |-> FALSE,
              callers |-> [g \in 1..MaxCallers |-> NoCaller]]

\* result{n, err} of a read, and what Read returned with the facts it
\* decided on: whether the timeout had elapsed, the count it compared with
\* the threshold, the result of the underlying read, whether it reset the
\* window
NoRes == [n |-> 0, err |-> "none"]
NoOut == [n |-> 0, err |-> "none", via |-> "none", late |-> FALSE,
          counted |-> 0, under |-> NoRes, reset |-> FALSE]

\* newStallDetectReader: lastProgress = time.Now(), bytesInPeriod = 0, on a
\* spool at its start (moved: the offset of the spool has left the start;
\* first: where the first read of this turn of the retry loop began, or
\* that Read left it behind)
FreshReader ==
    [pc |-> "idle", bytesInPeriod |-> 0, window |-> 0, timer |-> 0,
     inner |-> "none", res |-> NoRes, out |-> NoOut, reads |-> 0,
     cancelled |-> FALSE, closed |-> FALSE, stray |-> 0, old |-> 0,
     moved |-> FALSE, first |-> "none"]

\* awsReq: no call made yet
FreshReq ==
    [pc |-> "idle", calls |-> 0, site |-> "none", method |-> "", query |-> "",
     hdr |-> <<>>, body |-> <<>>, hash |-> <<>>, canon |-> <<>>,
     rpcs |-> <<>>, sent |-> <<>>, outs |-> <<>>]

\* the part-tag table of an upload that has not begun
FreshTable ==
    [ParallelUploads |-> DefaultParallelUploads, set |-> FALSE, partNo |-> 0,
     running |-> {}, stored |-> {}, overtakes |-> 0, awstags |-> <<>>,
     awstagsCap |-> 0, panicked |-> FALSE]

Quiet ==
    /\ rq = FreshReq
    /\ tg = FreshTable
    /\ sr = FreshReader
    /\ source = [paused |-> FALSE, pauses |-> 0]
    /\ progress = NoProgress
    /\ nwg = FreshGate
    /\ src = stream
    /\ u = NewUploadInfo
    /\ pc = "prepare"
    /\ strategy = "none"
    /\ partNo = 0
    /\ cnt = 0
    /\ joiner = "none"
    /\ errCh = <<>>
    /\ parts = [k \in 1..MaxParts |-> Idle]
    /\ puts = <<>>
    /\ finals = <<>>
    /\ finState = "none"
    /\ aborts = 0
    /\ tagOrder = <<0, 0>>
    /\ notified = 0
    /\ ret = NoRet
    /\ faults = MaxFaults

\* PrepareUpload: the defaults, then parse
PrepareUpload ==
    /\ pc = "prepare"
    /\ LET p == parse(NewUploadInfo, req)
       IN  /\ u' = p.u
           /\ pc' = CASE p.outcome = "ok" -> "ready"
                      [] p.outcome = "error" -> "done"
                      [] OTHER -> "panic"
           /\ ret' = IF p.outcome = "error" THEN Return("nil", Err("ErrParse", 0)) ELSE ret
    /\ UNCHANGED <<tg, rq, sr, obs, env, nwg, source, progress, req, ln, stream, grain, src, strategy, partNo, cnt, joiner,
                   errCh, parts, puts, finals, finState, aborts, tagOrder,
                   notified, faults>>

\* Do, up to the branch it takes
Do ==
    /\ pc \in {"ready", "configured"}
    /\ LET s == DoSelect(u, ln)
       IN  /\ strategy' = s
           /\ pc' = CASE s = "chunked" -> "loopWait"
                      [] s = "aws" -> "awsInit"
                      [] s = "put" -> "put"
                      [] OTHER -> "done"
           /\ ret' = IF s = "cfgerr" THEN Return("nil", Err("ErrConfig", 0)) ELSE ret
    /\ UNCHANGED <<tg, rq, sr, obs, env, nwg, source, progress, req, ln, stream, grain, src, u, partNo, cnt, joiner, errCh,
                   parts, puts, finals, finState, aborts, tagOrder, notified,
                   faults>>

---------------------------------------------------------------------------
(* The caller between PrepareUpload and Do *)

\* Upload/SpotUpload: ln is the size of a seekable source, else -1
UploadLen(seekable, s, g) ==
    IF ~seekable THEN Unknown
    ELSE IF g = 1 THEN Known(0, Len(s)) ELSE Known(Len(s), 0)

\* MaxPartSize and ParallelUploads are public fields: the caller sets
\* either, both or none
Configure ==
    /\ pc = "ready"
    /\ \E p \in (1..MaxParallel) \cup {u.ParallelUploads},
          m \in (1..MaxPartMiB) \cup {u.MaxPartSize} :
          u' = [u EXCEPT !.ParallelUploads = p, !.MaxPartSize = m]
    /\ pc' = "configured"
    /\ UNCHANGED <<tg, rq, sr, obs, env, nwg, source, progress, req, ln, stream, grain, src, strategy, partNo, cnt, joiner,
                   errCh, parts, puts, finals, finState, aborts, tagOrder,
                   notified, ret, faults>>

---------------------------------------------------------------------------
(* numeralWaitGroup *)

\* (variant: Wait returns at cnt <= min + 1)
WaitReturnsLate(c, min) == c <= min + 1

\* Wait(min) under the read lock: return, or sleep on the condition
WaitReturns(c, min) == c <= min

\* (variant: Add does not call Broadcast)
WokenNever(p) == p

\* (variant: the goroutine started after the loop is never woken)
WokenJoinerNever(j) == j

\* Add(delta), delta < 0: Broadcast wakes every sleeper, which re-checks
Woken(p) == IF p = "asleep" THEN "loopWait" ELSE p
WokenJoiner(j) == IF j = "asleep" THEN "check" ELSE j

\* select { case errCh <- e: default: }
TrySend(ch, e) == IF Len(ch) < errChCap THEN Append(ch, e) ELSE ch

\* (variant: a part that gives up returns without a word)
SendFinalNone(ch, e) == ch

\* a part that gives up: select { case errCh <- err: default: }; return
SendFinal(ch, e) == TrySend(ch, e)

---------------------------------------------------------------------------
(* Single-shot PUT (the tail of Do) *)

\* ln == 0: f is replaced by an empty reader
PutBody(l, s) == IF IsZero(l) THEN <<>> ELSE s

\* a request sent, with the class of the status that answered it
Sent(body, st) == [body |-> body, status |-> st]

\* UploadHttpClient.Do returns no error for an answer of any status, and
\* Do does not look at resp.StatusCode
SinglePut ==
    /\ pc = "put"
    /\ ~source.paused
    /\ \/ /\ puts' = Append(puts, Sent(PutBody(ln, src), "2xx"))
          /\ src' = <<>>
          /\ pc' = "complete"
          /\ progress' = Report(progress, 0, Bytes(ln))
          /\ UNCHANGED <<ret, faults>>
       \/ /\ Inject("refuse")
          /\ puts' = Append(puts, Sent(PutBody(ln, src), "4xx"))
          /\ src' = <<>>
          /\ pc' = "complete"
          /\ progress' = Report(progress, 0, Bytes(ln))
          /\ UNCHANGED ret
       \/ /\ Inject("neterr")
          /\ puts' = Append(puts, Sent(PutBody(ln, src), "none"))
          /\ src' = <<>>
          /\ ret' = Return("nil", Err("ErrPut", 0))
          /\ pc' = "done"
          /\ UNCHANGED progress
    /\ UNCHANGED <<tg, rq, sr, obs, env, nwg, source, req, ln, stream, grain, u, strategy, partNo, cnt, joiner,
                   errCh, parts, finals, finState, aborts, tagOrder, notified>>

\* complete(): POST to the Complete URL
Complete ==
    /\ pc = "complete"
    /\ notified' = notified + 1
    /\ pc' = "done"
    /\ \/ /\ ret' = Return("resp", Nil)
          /\ UNCHANGED faults
       \/ /\ Inject("complete")
          /\ ret' = Return("nil", Err("ErrComplete", 0))
    /\ UNCHANGED <<tg, rq, sr, obs, env, nwg, source, progress, req, ln, stream, grain, src, u, strategy, partNo, cnt,
                   joiner, errCh, parts, puts, finals, finState, aborts,
                   tagOrder>>

---------------------------------------------------------------------------
(* The dispatch loop of partUpload and awsUpload *)

\* what makes awsInit return an error: awsReq failed (the request, or a
\* status >= 400), the answer is not XML, the answer has no UploadId
InitErrors == {"ErrInitReq", "ErrInitDecode", "ErrInitNoId"}

\* (variant: awsUpload goes on whatever awsInit returned)
AfterInitIgnored(err) == "loopWait"

\* err := u.awsInit(mimeType); if err != nil { return nil, err }
AfterInit(err) == IF err = Nil THEN "loopWait" ELSE "done"

awsInit ==
    /\ pc = "awsInit"
    /\ \/ /\ u' = [u EXCEPT !.awsuploadid = "upid"]
          /\ pc' = AfterInit(Nil)
          /\ UNCHANGED <<ret, faults>>
       \/ /\ Inject("init")
          /\ \E e \in InitErrors :
                /\ ret' = Return("nil", Err(e, 0))
                /\ pc' = AfterInit(Err(e, 0))
          /\ UNCHANGED u
    /\ UNCHANGED <<tg, rq, sr, obs, env, nwg, source, progress, req, ln, stream, grain, src, strategy, partNo, cnt, joiner,
                   errCh, parts, puts, finals, finState, aborts, tagOrder,
                   notified>>

\* (variant: nwg.Wait(u.ParallelUploads))
WaitLimitFull(info) == info.ParallelUploads

\* nwg.Wait(u.ParallelUploads - 1)
WaitLimit(info) == info.ParallelUploads - 1

LoopWait ==
    /\ pc = "loopWait"
    /\ pc' = IF WaitReturns(cnt, WaitLimit(u)) THEN "dispatch" ELSE "asleep"
    /\ UNCHANGED <<tg, rq, sr, obs, env, nwg, source, progress, req, ln, stream, grain, src, u, strategy, partNo, cnt,
                   joiner, errCh, parts, puts, finals, finState, aborts,
                   tagOrder, notified, ret, faults>>

\* (variant: the loop goes on without the select on readCh and errCh)
AfterDispatchNoWait == "loopWait"

\* after the go statement the loop blocks in select on readCh and errCh
AfterDispatch == "select"

\* partNo += 1; nwg.Add(1); go u.partUploadPart(...) / u.awsUploadPart(...)
Dispatch ==
    /\ pc = "dispatch"
    /\ partNo < MaxParts
    /\ partNo' = partNo + 1
    /\ cnt' = cnt + 1
    /\ parts' = [parts EXCEPT ![partNo + 1].pc = "start"]
    /\ pc' = AfterDispatch
    /\ UNCHANGED <<tg, rq, sr, obs, env, nwg, source, progress, req, ln, stream, grain, src, u, strategy, joiner, errCh,
                   puts, finals, finState, aborts, tagOrder, notified, ret,
                   faults>>

\* (variant: no abort)
awsAbortSkipped(a) == a

\* awsAbort is called on the fatal paths of awsUpload only
awsAbort(a) == a + 1
AbortIfAws(a) == IF strategy = "aws" THEN awsAbort(a) ELSE a

\* case err := <-readCh
SelectRead ==
    /\ pc = "select"
    /\ parts[partNo].pc = "sendRead"
    /\ LET w == parts[partNo]
       IN  /\ parts' = [parts EXCEPT ![partNo].pc =
                            IF w.cont THEN "attempt" ELSE "done"]
           /\ CASE w.rd = EOF ->
                     /\ pc' = "join"
                     /\ joiner' = "check"
                     /\ UNCHANGED <<aborts, ret>>
                [] w.rd = Nil ->
                     /\ pc' = "loopWait"
                     /\ UNCHANGED <<joiner, aborts, ret>>
                [] OTHER ->
                     /\ aborts' = AbortIfAws(aborts)
                     /\ ret' = Return("nil", w.rd)
                     /\ pc' = "done"
                     /\ UNCHANGED joiner
    /\ UNCHANGED <<tg, rq, sr, obs, env, nwg, source, progress, req, ln, stream, grain, src, u, strategy, partNo, cnt,
                   errCh, puts, finals, finState, tagOrder, notified, faults>>

\* case err := <-errCh
SelectErr ==
    /\ pc = "select"
    /\ errCh # <<>>
    /\ errCh' = Tail(errCh)
    /\ aborts' = AbortIfAws(aborts)
    /\ ret' = Return("nil", Head(errCh))
    /\ pc' = "done"
    /\ UNCHANGED <<tg, rq, sr, obs, env, nwg, source, progress, req, ln, stream, grain, src, u, strategy, partNo, cnt,
                   joiner, parts, puts, finals, finState, tagOrder, notified,
                   faults>>

\* go func() { nwg.Wait(0); select { case errCh <- nil: default: } }()
Joiner ==
    /\ joiner = "check"
    /\ IF WaitReturns(cnt, JoinLimit)
       THEN /\ errCh' = TrySend(errCh, Nil)
            /\ joiner' = "done"
       ELSE /\ joiner' = "asleep"
            /\ UNCHANGED errCh
    /\ UNCHANGED <<tg, rq, sr, obs, env, nwg, source, progress, req, ln, stream, grain, src, u, pc, strategy, partNo, cnt,
                   parts, puts, finals, finState, aborts, tagOrder, notified,
                   ret, faults>>

\* err := <-errCh after the loop
JoinRecv ==
    /\ pc = "join"
    /\ errCh # <<>>
    /\ errCh' = Tail(errCh)
    /\ IF Head(errCh) = Nil
       THEN /\ pc' = IF strategy = "aws" THEN "finalize" ELSE "complete"
            /\ UNCHANGED <<aborts, ret>>
       ELSE /\ aborts' = AbortIfAws(aborts)
            /\ ret' = Return("nil", Head(errCh))
            /\ pc' = "done"
    /\ UNCHANGED <<tg, rq, sr, obs, env, nwg, source, progress, req, ln, stream, grain, src, u, strategy, partNo, cnt,
                   joiner, parts, puts, finals, finState, tagOrder, notified,
                   faults>>

\* the body awsFinalize builds: for n, tag := range u.awstags
FinalizeBody(tags) == [i \in 1..Len(tags) |-> <<i, tags[i]>>]

awsFinalize ==
    /\ pc = "finalize"
    /\ \/ /\ finals' = Append(finals, FinalizeBody(u.awstags))
          /\ finState' = "ok"
          /\ pc' = "complete"
          /\ UNCHANGED <<ret, faults>>
       \/ /\ Inject("finalize")
          /\ \/ finals' = Append(finals, FinalizeBody(u.awstags))
             \/ UNCHANGED finals
          /\ finState' = "failed"
          /\ ret' = Return("nil", Err("ErrFinalize", 0))
          /\ pc' = "done"
    /\ UNCHANGED <<tg, rq, sr, obs, env, nwg, source, progress, req, ln, stream, grain, src, u, strategy, partNo, cnt,
                   joiner, errCh, parts, puts, aborts, tagOrder, notified>>

---------------------------------------------------------------------------
(* The part goroutines *)

\* io.CopyN(tmpf, f, limit): [data, rest, err], limit in bytes
CopyN(s, limit, g) ==
    LET want == limit \div g
        got == Min(want, Len(s))
    IN  [data |-> SubSeq(s, 1, got),
         rest |-> SubSeq(s, got + 1, Len(s)),
         err |-> IF got < want THEN EOF ELSE Nil]

\* (variant: the part is sent after io.EOF whatever n is)
partAfterReadTrailing(n, err, k) ==
    IF err # Nil /\ err # EOF THEN [ch |-> "errCh", val |-> err, cont |-> FALSE]
    ELSE IF err = EOF THEN [ch |-> "readCh", val |-> EOF, cont |-> TRUE]
    ELSE [ch |-> "readCh", val |-> Nil, cont |-> TRUE]

\* what partUploadPart does with (n, err) of CopyN
partAfterRead(n, err, k) ==
    IF err # Nil /\ err # EOF THEN [ch |-> "errCh", val |-> err, cont |-> FALSE]
    ELSE IF err = EOF THEN [ch |-> "readCh", val |-> EOF, cont |-> n # 0]
    ELSE IF n = 0 THEN [ch |-> "readCh", val |-> EOF, cont |-> FALSE]
    ELSE [ch |-> "readCh", val |-> Nil, cont |-> TRUE]

\* what awsUploadPart does with (n, err) of CopyN
awsAfterRead(n, err, k) ==
    IF err # Nil /\ err # EOF THEN [ch |-> "errCh", val |-> err, cont |-> FALSE]
    ELSE IF err = EOF THEN [ch |-> "readCh", val |-> EOF, cont |-> ~(n = 0 /\ k # 1)]
    ELSE IF n = 0 /\ k # 1 THEN [ch |-> "readCh", val |-> EOF, cont |-> FALSE]
    ELSE [ch |-> "readCh", val |-> Nil, cont |-> TRUE]

AfterRead(n, err, k) ==
    IF strategy = "aws" THEN awsAfterRead(n, err, k) ELSE partAfterRead(n, err, k)

\* the CopyN limit: u.blocksize, or maxLen*1024*1024 with maxLen = u.MaxPartSize
ReadLimit(info) ==
    IF strategy = "aws" THEN info.MaxPartSize * MiB ELSE info.blocksize

Spooled(w, data, a) ==
    [w EXCEPT !.pc = IF a.ch = "errCh" THEN "sendErr" ELSE "sendRead",
              !.n = Len(data) * grain,
              !.spool = data,
              !.tmpf = "open",
              !.off = Len(data),
              !.rd = a.val,
              !.cont = a.cont,
              !.res = CASE a.ch = "errCh" -> "readerr"
                        [] a.cont -> "none"
                        [] OTHER -> "nodata"]

\* os.CreateTemp, then io.CopyN from the source
PartRead(k) ==
    /\ parts[k].pc = "start"
    /\ ~source.paused
    /\ \/ \* os.CreateTemp fails: readCh <- err
          /\ Inject("tmpfile")
          /\ parts' = [parts EXCEPT ![k].pc = "sendRead",
                                    ![k].rd = Err("ErrTemp", k),
                                    ![k].cont = FALSE,
                                    ![k].res = "tmperr"]
          /\ UNCHANGED src
       \/ \* the copy runs to its limit or to the end of the source
          /\ LET c == CopyN(src, ReadLimit(u), grain)
                 a == AfterRead(Len(c.data) * grain, c.err, k)
             IN  /\ parts' = [parts EXCEPT ![k] = Spooled(@, c.data, a)]
                 /\ src' = c.rest
          /\ UNCHANGED faults
       \/ \* the source fails after j more elements
          /\ Inject("read")
          /\ \E j \in 0..Len(CopyN(src, ReadLimit(u), grain).data) :
                LET a == AfterRead(j * grain, Err("ErrRead", k), k)
                IN  /\ parts' = [parts EXCEPT ![k] = Spooled(@, SubSeq(src, 1, j), a)]
                    /\ src' = SubSeq(src, j + 1, Len(src))
    /\ UNCHANGED <<tg, rq, sr, obs, env, nwg, source, progress, req, ln, stream, grain, u, pc, strategy, partNo, cnt,
                   joiner, errCh, puts, finals, finState, aborts, tagOrder,
                   notified, ret>>

\* errCh <- err, the blocking send after a failed read
PartSendErr(k) ==
    /\ parts[k].pc = "sendErr"
    /\ Len(errCh) < errChCap
    /\ errCh' = Append(errCh, parts[k].rd)
    /\ parts' = [parts EXCEPT ![k].pc = "done"]
    /\ UNCHANGED <<tg, rq, sr, obs, env, nwg, source, progress, req, ln, stream, grain, src, u, pc, strategy, partNo, cnt,
                   joiner, puts, finals, finState, aborts, tagOrder, notified,
                   ret, faults>>

\* (variant: delay := baseDelay * (attempt + 1))
BackoffLinear(attempt) == Min(30, attempt + 1)

\* (variant: attempt < maxRetries-2)
RetriesEarly(attempt) == attempt < maxRetries - 2

\* attempt < maxRetries-1: the loop goes on
Retries(attempt) == attempt < maxRetries - 1

\* (variant: no tmpf.Seek before the request)
RewindSkipped(w) == w

\* tmpf.Seek(0, io.SeekStart), then the request reads tmpf to its end
Rewind(w) == [w EXCEPT !.off = 0]
BodyOf(w) == SubSeq(w.spool, w.off + 1, Len(w.spool))

\* (variant: u.awstags = append(u.awstags, tag))
setTagAppend(info, k, tag) == [info EXCEPT !.awstags = Append(@, tag)]

\* setTag(partNo, tag)
TagCapStep == 64
setTag(info, k, tag) ==
    LET pos == k - 1
        cap == IF info.awstagsCap <= pos THEN info.awstagsCap + TagCapStep
               ELSE info.awstagsCap
        old == info.awstags
        grown == IF pos >= Len(old)
                 THEN [i \in 1..(pos + 1) |-> IF i <= Len(old) THEN old[i] ELSE <<>>]
                 ELSE old
    IN  [info EXCEPT !.awstagsCap = cap,
                     !.awstags = [grown EXCEPT ![pos + 1] = tag]]

\* u.awstags = u.awstags[:pos+1] with pos+1 above the capacity that one
\* step of growth gave: slice bounds out of range, the goroutine panics
setTagPanics(info, k) ==
    LET pos == k - 1
        cap == IF info.awstagsCap <= pos THEN info.awstagsCap + TagCapStep
               ELSE info.awstagsCap
    IN  pos >= Len(info.awstags) /\ pos + 1 > cap

\* outcomes of one request of partUploadPart that end the attempt in error
\* (http.NewRequestWithContext, UploadHttpClient.Do, io.Copy of the answer)
PartFailures == {"newreq", "neterr", "stall", "cancel", "deadline", "bodyerr"}
\* UploadHttpClient.Do returns no error for an answer of any status, and
\* partUploadPart does not look at resp.StatusCode ("4xx": any status that
\* is not a 2xx)
PartAnswers == {"2xx", "4xx"}
\* awsReq turns a status >= 400 into an error, and no other: an answer
\* below 400 that is not a 2xx ("3xx": a redirect the client cannot follow,
\* as the body of the request cannot be read again) is returned like a 2xx
AwsAnswers == {"2xx", "3xx"}
\* resp.Header.Get("Etag"): only the answer to a part that was stored has one
Tag(body, st) == IF st = "2xx" THEN Etag(body) ELSE <<>>

\* where a failed turn leaves the offset of tmpf: at 0 when no request was
\* made, anywhere when the transfer broke, at the end when it was answered
OffAfter(w, o) ==
    CASE o \in {"newreq", "signerr"} -> {0}
      [] o \in {"neterr", "stall", "cancel", "deadline"} -> 0..Len(w.spool)
      [] OTHER -> {Len(w.spool)}

\* delay := baseDelay * time.Duration(1<<uint(attempt)), at most 30 s
\* (in seconds)
baseDelay == 1
maxDelay == 30
Backoff(attempt) == Min(maxDelay, baseDelay * 2^attempt)

\* the failures after which the loop goes on without time.Sleep:
\* partUploadPart tests errors.Is(err, ErrUploadStalled) only, awsUploadPart
\* also context.Canceled and context.DeadlineExceeded
partImmediate(o) == o = "stall"
awsImmediate(o) == o \in {"stall", "cancel", "deadline"}
Immediate(o) == IF strategy = "aws" THEN awsImmediate(o) ELSE partImmediate(o)

\* what the worker sleeps between a failed turn and the next one
Delay(o, attempt) == IF Immediate(o) THEN 0 ELSE Backoff(attempt)

\* last and slept are a record of the turn only: nothing reads them
SeenKind(o) == IF obs THEN o ELSE Idle.last
SeenDelay(d) == IF obs THEN d ELSE Idle.slept

\* the failures of a turn that come before any request is made
Unsent == {"newreq", "signerr"}

\* the body the request of a failed turn carried, where turns are on record
SeenBody(w, o) == IF obs /\ o \notin Unsent THEN BodyOf(Rewind(w)) ELSE w.body

\* (variant: end := start + n)
ContentRangeExclusive(k, n, blocksize) ==
    [start |-> (k - 1) * blocksize, end |-> (k - 1) * blocksize + n]

\* start := int64(partNo-1) * u.blocksize; end := start + n - 1
ContentRange(k, n, blocksize) ==
    [start |-> (k - 1) * blocksize, end |-> (k - 1) * blocksize + n - 1]

\* the Content-Range header of the request of a turn of partUploadPart
Ranged(w, k, o) ==
    IF obs /\ o \notin Unsent
    THEN [w EXCEPT !.range = ContentRange(k, w.n, u.blocksize)]
    ELSE w

\* the failed turns the environment can produce: a kind of failure and the
\* offset it leaves.  Where the kind is not put on record, one kind stands
\* for all those that leave the same offset.
Pairs(F, w) ==
    {t \in (F \cap env) \X (0..Len(w.spool)) : t[2] \in OffAfter(w, t[1])}
Turns(F, w) ==
    IF obs THEN Pairs(F, w)
    ELSE {<<CHOOSE o \in F \cap env : <<o, j>> \in Pairs(F, w), j>> :
              j \in {t[2] : t \in Pairs(F, w)}}

\* a failed turn: the loop goes on, or the worker reports and ends
Failed(w, j, o) ==
    IF Retries(w.attempt)
    THEN [w EXCEPT !.attempt = @ + 1,
                   !.tries = @ + 1,
                   !.off = j,
                   !.body = SeenBody(w, o),
                   !.last = SeenKind(o),
                   !.slept = SeenDelay(Delay(o, w.attempt))]
    ELSE [w EXCEPT !.tries = @ + 1,
                   !.off = j,
                   !.body = SeenBody(w, o),
                   !.last = SeenKind(o),
                   !.slept = SeenDelay(0),
                   !.res = "failed",
                   !.pc = "done"]

\* the turn that is answered: the request carried the spool from its start,
\* and the goroutine returns as for a success
Succeeded(w, st) ==
    [w EXCEPT !.tries = @ + 1,
              !.body = BodyOf(Rewind(w)),
              !.off = Len(w.spool),
              !.res = IF st = "2xx" THEN "ok" ELSE "refused",
              !.pc = "done"]

\* after the loop: "upload failed after %d attempts"
Exhausted(w) == [w EXCEPT !.res = "failed", !.pc = "done"]

\* one turn of the retry loop of partUploadPart, or the code after the loop
partAttempt(k) ==
    /\ strategy = "chunked"
    /\ parts[k].pc = "attempt"
    /\ IF parts[k].attempt < maxRetries
       THEN \/ /\ \E st \in PartAnswers :
                     /\ parts' = [parts EXCEPT ![k] = Ranged(Succeeded(@, st), k, st)]
                     /\ IF st = "2xx" THEN UNCHANGED faults ELSE Inject("refuse")
               /\ progress' = Report(progress, k, parts[k].n)
               /\ UNCHANGED errCh
            \/ /\ faults > 0
               /\ faults' = faults - 1
               /\ \E t \in Turns(PartFailures, parts[k]) :
                     parts' = [parts EXCEPT ![k] = Ranged(Failed(@, t[2], t[1]), k, t[1])]
               /\ errCh' = IF Retries(parts[k].attempt) THEN errCh
                           ELSE SendFinal(errCh, Err("ErrPart", k))
               /\ UNCHANGED progress
       ELSE /\ parts' = [parts EXCEPT ![k] = Exhausted(@)]
            /\ errCh' = SendFinal(errCh, Err("ErrExhausted", k))
            /\ UNCHANGED <<faults, progress>>
    /\ UNCHANGED <<tg, rq, sr, obs, env, nwg, source, req, ln, stream, grain, src, u, pc, strategy, partNo, cnt,
                   joiner, puts, finals, finState, aborts, tagOrder, notified,
                   ret>>

\* outcomes of awsReq that are an error, and of io.Copy of the answer
AwsFailures ==
    {"signerr", "newreq", "neterr", "stall", "cancel", "deadline", "4xx", "bodyerr"}

\* one turn of the retry loop of awsUploadPart, or the code after the loop
awsAttempt(k) ==
    /\ strategy = "aws"
    /\ parts[k].pc = "attempt"
    /\ IF parts[k].attempt < maxRetries
       THEN \/ /\ \E st \in AwsAnswers :
                     /\ parts' = [parts EXCEPT ![k] = Succeeded(@, st)]
                     /\ u' = setTag(u, k, Tag(BodyOf(Rewind(parts[k])), st))
                     /\ IF st = "2xx" THEN UNCHANGED faults ELSE Inject("redirect")
               /\ tagOrder' = <<IF tagOrder[1] = 0 THEN k ELSE tagOrder[1], k>>
               /\ progress' = Report(progress, k, parts[k].n)
               /\ UNCHANGED errCh
            \/ /\ faults > 0
               /\ faults' = faults - 1
               /\ \E t \in Turns(AwsFailures, parts[k]) :
                     parts' = [parts EXCEPT ![k] = Failed(@, t[2], t[1])]
               /\ errCh' = IF Retries(parts[k].attempt) THEN errCh
                           ELSE SendFinal(errCh, Err("ErrPart", k))
               /\ UNCHANGED <<u, tagOrder, progress>>
       ELSE /\ parts' = [parts EXCEPT ![k] = Exhausted(@)]
            /\ errCh' = SendFinal(errCh, Err("ErrExhausted", k))
            /\ UNCHANGED <<u, tagOrder, faults, progress>>
    /\ UNCHANGED <<tg, rq, sr, obs, env, nwg, source, req, ln, stream, grain, src, pc, strategy, partNo, cnt,
                   joiner, puts, finals, finState, aborts, notified, ret>>

\* defer func() { tmpf.Close(); os.Remove(tmpf.Name()) }()
Cleanup(f) == IF f = "open" THEN "removed" ELSE f

\* the goroutine is gone: its locals with it, its record of requests stays
Exited(w) ==
    [w EXCEPT !.pc = "exited", !.attempt = 0, !.off = 0, !.rd = Nil,
              !.cont = FALSE, !.spool = <<>>, !.last = "none", !.slept = 0,
              !.tmpf = Cleanup(@)]

\* defer nwg.Done()
PartDone(k) ==
    /\ parts[k].pc = "done"
    /\ cnt' = cnt - 1
    /\ pc' = Woken(pc)
    /\ joiner' = WokenJoiner(joiner)
    /\ parts' = [parts EXCEPT ![k] = Exited(@)]
    /\ UNCHANGED <<tg, rq, sr, obs, env, nwg, source, progress, req, ln, stream, grain, src, u, strategy, partNo, errCh,
                   puts, finals, finState, aborts, tagOrder, notified, ret,
                   faults>>

---------------------------------------------------------------------------
(* Whole uploads, as Upload drives them *)

\* every failure the environment can produce
AllFaults ==
    PartFailures \cup AwsFailures \cup
    {"refuse", "complete", "init", "finalize", "tmpfile", "read"}

PutOnly == [PUT |-> JStr("put"), Complete |-> JStr("cmpl"), Blocksize |-> JAbsent,
            Cloud_Aws_Bucket_Upload__ |-> JAbsent, Key |-> JAbsent,
            Bucket_Endpoint |-> NoBucket("absent")]
Chunked(b) == [PutOnly EXCEPT !.Blocksize = JNum(b)]
Cloud == [PutOnly EXCEPT !.Cloud_Aws_Bucket_Upload__ = JStr("id"),
                         !.Key = JStr("k"),
                         !.Bucket_Endpoint = [t |-> "object", Region |-> JStr("r"),
                                              Name |-> JStr("n"), Host |-> JStr("h")]]

\* descriptor and size of a stream element: cloud parts are counted in MiB
Inputs ==
    ({PutOnly, Cloud} \cup {Chunked(b) : b \in 1..MaxBlock}) \X {1}
    \cup {<<Cloud, MiB>>}

Init ==
    /\ \E in \in Inputs : req = in[1] /\ grain = in[2]
    /\ \E L \in 0..MaxLen : stream = [i \in 1..L |-> i]
    /\ \E seekable \in BOOLEAN : ln = UploadLen(seekable, stream, grain)
    /\ env = AllFaults
    /\ obs = FALSE
    /\ Quiet

Worker(k) ==
    \/ PartRead(k)
    \/ PartSendErr(k)
    \/ partAttempt(k)
    \/ awsAttempt(k)
    \/ PartDone(k)

Next ==
    \/ PrepareUpload
    \/ Configure
    \/ Do
    \/ SinglePut
    \/ Complete
    \/ awsInit
    \/ LoopWait
    \/ Dispatch
    \/ SelectRead
    \/ SelectErr
    \/ Joiner
    \/ JoinRecv
    \/ awsFinalize
    \/ \E k \in 1..MaxParts : Worker(k)

Spec == Init /\ [][Next]_vars

(* Cloud multipart uploads of longer streams from a source that cannot seek *)
InitCloud ==
    /\ req = Cloud
    /\ grain = MiB
    /\ \E L \in 0..MaxCloudLen : stream = [i \in 1..L |-> i]
    /\ ln = UploadLen(FALSE, stream, grain)
    /\ env = AllFaults
    /\ obs = FALSE
    /\ Quiet

CloudWorker(k) ==
    \/ PartRead(k)
    \/ PartSendErr(k)
    \/ awsAttempt(k)
    \/ PartDone(k)

NextCloud ==
    \/ PrepareUpload
    \/ Configure
    \/ Do
    \/ Complete
    \/ awsInit
    \/ LoopWait
    \/ Dispatch
    \/ SelectRead
    \/ SelectErr
    \/ Joiner
    \/ JoinRecv
    \/ awsFinalize
    \/ \E k \in 1..MaxParts : CloudWorker(k)

SpecCloud == InitCloud /\ [][NextCloud]_vars

\* a cloud upload whose storage may also answer a part below 400 without
\* storing it
InitTags ==
    /\ req = Cloud
    /\ grain = MiB
    /\ \E L \in 0..MaxLen : stream = [i \in 1..L |-> i]
    /\ ln = UploadLen(FALSE, stream, grain)
    /\ env = AwsFailures \cup {"redirect"}
    /\ obs = FALSE
    /\ Quiet

NextTags ==
    \/ PrepareUpload
    \/ Configure
    \/ Do
    \/ Complete
    \/ awsInit
    \/ LoopWait
    \/ Dispatch
    \/ SelectRead
    \/ SelectErr
    \/ Joiner
    \/ JoinRecv
    \/ awsFinalize
    \/ \E k \in 1..MaxParts : PartRead(k) \/ awsAttempt(k) \/ PartDone(k)

SpecTags == InitTags /\ [][NextTags]_vars

(* Uploads from a source that cannot seek, the kind of every failed turn *)
(* and the delay that follows it on record                               *)
InitRetry ==
    /\ \E in \in {<<Chunked(1), 1>>, <<Cloud, MiB>>} : req = in[1] /\ grain = in[2]
    /\ \E L \in 0..MaxRetryLen : stream = [i \in 1..L |-> i]
    /\ ln = UploadLen(FALSE, stream, grain)
    /\ env = AllFaults
    /\ obs = TRUE
    /\ Quiet

NextRetry ==
    \/ PrepareUpload
    \/ Configure
    \/ Do
    \/ Complete
    \/ awsInit
    \/ LoopWait
    \/ Dispatch
    \/ SelectRead
    \/ SelectErr
    \/ Joiner
    \/ JoinRecv
    \/ awsFinalize
    \/ \E k \in 1..MaxParts : Worker(k)

SpecRetry == InitRetry /\ [][NextRetry]_vars

(* Chunked PUT uploads with the requests of every turn on record *)
InitRange ==
    /\ \E b \in 1..MaxBlock : req = Chunked(b)
    /\ grain = 1
    /\ \E L \in 0..MaxLen : stream = [i \in 1..L |-> i]
    /\ ln = UploadLen(FALSE, stream, grain)
    /\ env = {"newreq", "neterr", "refuse"}
    /\ obs = TRUE
    /\ Quiet

NextRange ==
    \/ PrepareUpload
    \/ Configure
    \/ Do
    \/ Complete
    \/ LoopWait
    \/ Dispatch
    \/ SelectRead
    \/ SelectErr
    \/ Joiner
    \/ JoinRecv
    \/ \E k \in 1..MaxParts : PartRead(k) \/ partAttempt(k) \/ PartDone(k)

SpecRange == InitRange /\ [][NextRange]_vars

---------------------------------------------------------------------------
(* Uploads whose only troubles are stalls: the byte source stops for a     *)
(* while and resumes, and transfers of a spooled part stall                *)
(* (ErrUploadStalled from the stallDetectReader around tmpf).              *)

\* the source stops producing bytes while a read of it is pending: io.CopyN
\* of a part goroutine, or the transport reading the body of the single PUT
Pause ==
    /\ "pause" \in env
    /\ ~source.paused
    /\ source.pauses < MaxPauses
    /\ pc = "put" \/ \E k \in 1..MaxParts : parts[k].pc = "start"
    /\ source' = [paused |-> TRUE, pauses |-> source.pauses + 1]
    /\ UNCHANGED <<req, ln, stream, grain, src, u, pc, strategy, partNo, cnt,
                   joiner, errCh, parts, puts, finals, finState, aborts,
                   tagOrder, notified, ret, faults, env, progress, nwg, obs, sr,
                   rq, tg>>

\* the source produces bytes again
Resume ==
    /\ source.paused
    /\ source' = [source EXCEPT !.paused = FALSE]
    /\ UNCHANGED <<req, ln, stream, grain, src, u, pc, strategy, partNo, cnt,
                   joiner, errCh, parts, puts, finals, finState, aborts,
                   tagOrder, notified, ret, faults, env, progress, nwg, obs, sr,
                   rq, tg>>

InitLive ==
    /\ \E in \in {<<PutOnly, 1>>, <<Chunked(1), 1>>, <<Cloud, MiB>>} :
           req = in[1] /\ grain = in[2]
    /\ \E L \in 0..MaxRetryLen : stream = [i \in 1..L |-> i]
    /\ \E seekable \in BOOLEAN : ln = UploadLen(seekable, stream, grain)
    /\ env = {"stall", "pause"}
    /\ obs = FALSE
    /\ Quiet

\* the goroutine that called Do
Caller ==
    \/ PrepareUpload
    \/ Configure
    \/ Do
    \/ SinglePut
    \/ Complete
    \/ awsInit
    \/ LoopWait
    \/ Dispatch
    \/ SelectRead
    \/ SelectErr
    \/ JoinRecv
    \/ awsFinalize

\* a part goroutine whose reads of the source do not fail
LiveWorker(k) ==
    \/ PartRead(k)
    \/ partAttempt(k)
    \/ awsAttempt(k)
    \/ PartDone(k)

NextLive ==
    \/ Caller
    \/ Joiner
    \/ \E k \in 1..MaxParts : LiveWorker(k)
    \/ Pause
    \/ Resume

\* every goroutine that can run does run, and a paused source resumes
Fairness ==
    /\ WF_vars(Caller)
    /\ WF_vars(Joiner)
    /\ \A k \in 1..MaxParts : WF_vars(LiveWorker(k))
    /\ WF_vars(Resume)

SpecLive == InitLive /\ [][NextLive]_vars /\ Fairness

(* Uploads in which every failure may happen, and in which every read of    *)
(* the source, every request and every sleep returns.                      *)

InitTerm ==
    /\ \E in \in {<<PutOnly, 1>>, <<Chunked(1), 1>>, <<Cloud, MiB>>} :
           req = in[1] /\ grain = in[2]
    /\ \E L \in 0..MaxRetryLen : stream = [i \in 1..L |-> i]
    /\ \E seekable \in BOOLEAN : ln = UploadLen(seekable, stream, grain)
    /\ env = AllFaults
    /\ obs = FALSE
    /\ Quiet

NextTerm ==
    \/ Caller
    \/ Joiner
    \/ \E k \in 1..MaxParts : Worker(k)

\* every goroutine that can run does run
FairTerm ==
    /\ WF_vars(Caller)
    /\ WF_vars(Joiner)
    /\ \A k \in 1..MaxParts : WF_vars(Worker(k))

SpecTerm == InitTerm /\ [][NextTerm]_vars /\ FairTerm

---------------------------------------------------------------------------
(* numeralWaitGroup on its own: goroutines calling Add, Done and Wait.     *)
(* lk is a sync.RWMutex; cd is a sync.Cond on lk.RLocker().                *)

Callers == 1..MaxCallers

GateFrame ==
    UNCHANGED <<req, ln, stream, grain, src, u, pc, strategy, partNo, joiner,
                errCh, parts, puts, finals, finState, aborts, tagOrder,
                notified, ret, faults, env, source, progress, obs, sr,
                   rq, tg>>

\* n.lk.Lock() of Add(delta): no reader, no writer
GateAddLock(g) ==
    /\ nwg.callers[g].pc = "idle"
    /\ nwg.readers = 0
    /\ ~nwg.writer
    /\ \E delta \in {-1, 1} :
          /\ cnt + delta \in 0..MaxCallers
          /\ nwg' = [nwg EXCEPT !.writer = TRUE,
                                 !.callers[g] = [pc |-> "adding", arg |-> delta,
                                                 parked |-> FALSE]]
    /\ UNCHANGED cnt
    /\ GateFrame

\* (variant: no Broadcast)
BroadcastNone(cs) == cs

\* cd.Broadcast(): every goroutine parked in cd.Wait() is made runnable
Broadcast(cs) ==
    [h \in Callers |-> IF cs[h].pc = "parked" THEN [cs[h] EXCEPT !.pc = "woken"]
                       ELSE cs[h]]

\* n.cnt += delta; if delta < 0 { n.cd.Broadcast() }; deferred Unlock
GateAdd(g) ==
    /\ nwg.callers[g].pc = "adding"
    /\ cnt' = cnt + nwg.callers[g].arg
    /\ LET cs == IF nwg.callers[g].arg < 0 THEN Broadcast(nwg.callers)
                 ELSE nwg.callers
       IN  nwg' = [nwg EXCEPT !.writer = FALSE,
                              !.callers = [cs EXCEPT ![g] = NoCaller]]
    /\ GateFrame

\* n.lk.RLock() of Wait(min), and the one that ends cd.Wait()
GateRLock(g) ==
    /\ nwg.callers[g].pc \in {"idle", "woken"}
    /\ ~nwg.writer
    /\ \E min \in 0..(MaxCallers - 1) :
          /\ nwg.callers[g].pc = "woken" => min = nwg.callers[g].arg
          /\ nwg' = [nwg EXCEPT !.readers = @ + 1,
                                 !.callers[g].pc = "check",
                                 !.callers[g].arg = min]
    /\ UNCHANGED cnt
    /\ GateFrame

\* if n.cnt <= min { return }, else cd.Wait() puts the goroutine on the
\* notify list (before it unlocks)
GateCheck(g) ==
    /\ nwg.callers[g].pc = "check"
    /\ nwg' = [nwg EXCEPT !.callers[g].pc =
                     IF WaitReturns(cnt, nwg.callers[g].arg) THEN "return"
                     ELSE "queued"]
    /\ UNCHANGED cnt
    /\ GateFrame

\* cd.Wait(): c.L.Unlock(), then the goroutine parks
GatePark(g) ==
    /\ nwg.callers[g].pc = "queued"
    /\ nwg' = [nwg EXCEPT !.readers = @ - 1,
                           !.callers[g].pc = "parked",
                           !.callers[g].parked = TRUE]
    /\ UNCHANGED cnt
    /\ GateFrame

\* Wait returns: the deferred n.lk.RUnlock()
GateReturn(g) ==
    /\ nwg.callers[g].pc = "return"
    /\ nwg' = [nwg EXCEPT !.readers = @ - 1, !.callers[g] = NoCaller]
    /\ UNCHANGED cnt
    /\ GateFrame

InitGate ==
    /\ req = PutOnly
    /\ grain = 1
    /\ stream = <<>>
    /\ ln = Unknown
    /\ env = {}
    /\ obs = FALSE
    /\ Quiet

NextGate ==
    \E g \in Callers :
        \/ GateAddLock(g)
        \/ GateAdd(g)
        \/ GateRLock(g)
        \/ GateCheck(g)
        \/ GatePark(g)
        \/ GateReturn(g)

SpecGate == InitGate /\ [][NextGate]_vars

\* a call of Wait(min) under way in goroutine g
Waiting(g, min) ==
    /\ nwg.callers[g].pc \in {"check", "queued", "parked", "woken"}
    /\ nwg.callers[g].arg = min

\* the c.L.Lock() that ends cd.Wait(): the RLock of a woken goroutine
GateResume(g) == nwg.callers[g].pc = "woken" /\ GateRLock(g)

\* the steps of a call under way that wait for nothing
GateStep(g) ==
    \/ GateAdd(g)
    \/ GateCheck(g)
    \/ GatePark(g)
    \/ GateReturn(g)

\* a call under way goes on; a reader blocked by a writer is let in when the
\* writer unlocks, ahead of any later writer (sync.RWMutex); whether a
\* goroutine calls Add or Wait at all is its own choice
FairGate ==
    \A g \in Callers : WF_vars(GateStep(g)) /\ SF_vars(GateResume(g))

SpecGateLive == InitGate /\ [][NextGate]_vars /\ FairGate

---------------------------------------------------------------------------
(* stallDetectReader: one reader, the goroutine calling Read on it, the    *)
(* goroutine Read starts for the underlying read, and the clock.           *)

SrFrame ==
    UNCHANGED <<req, ln, stream, grain, src, u, pc, strategy, partNo, cnt,
                joiner, errCh, parts, puts, finals, finState, aborts,
                tagOrder, notified, ret, faults, env, source, progress, nwg,
                obs, rq, tg>>

\* (variant: sr.bytesInPeriod <= sr.stallThreshold)
StalledInclusive(bytes) == bytes <= stallThreshold

\* sr.bytesInPeriod < sr.stallThreshold
Stalled(bytes) == bytes < stallThreshold

\* time.Since(sr.lastProgress) is kept up to the first value above the timeout
Late == stallTimeout + 1
\* the clock advances by half a timeout
ClockStep == stallTimeout \div 2

\* what the underlying reader returns: (n, err)
ReadSizes == {0, 1, stallThreshold - 1, stallThreshold}
ReadErrors == {"nil", "EOF", "ErrIO"}

\* Read returns (n, err); a read still under way is left to its goroutine,
\* which goes on reading sr.reader, and its result is never taken
SrReturn(s, n, err, via, late, counted, under, reset) ==
    [s EXCEPT !.pc = "idle", !.inner = "none", !.res = NoRes,
              !.stray = IF s.inner = "running" THEN @ + 1 ELSE @,
              !.first = IF s.inner = "running" /\ @ = "none" THEN "left" ELSE @,
              !.out = [n |-> n, err |-> err, via |-> via, late |-> late,
                       counted |-> counted, under |-> under, reset |-> reset]]

\* Read: time.NewTimer(sr.stallTimeout), go func() { sr.reader.Read(p) ... }
SrRead ==
    /\ sr.pc = "idle"
    /\ sr.reads < MaxReads
    /\ sr' = [sr EXCEPT !.pc = "select", !.timer = 0, !.inner = "running",
                        !.reads = @ + 1, !.out = NoOut]
    /\ SrFrame

\* the underlying read completes: readCh <- result{n, err}
SrInner ==
    /\ sr.inner = "running"
    /\ \E n \in ReadSizes, e \in ReadErrors :
          sr' = [sr EXCEPT !.inner = "ready", !.res = [n |-> n, err |-> e],
                          !.first = IF @ # "none" THEN @
                                    ELSE IF sr.moved THEN "moved" ELSE "start",
                          !.moved = @ \/ n > 0]
    /\ SrFrame

\* a read that Read has left behind completes, having read n bytes at the
\* offset the spool has now: its goroutine puts the result in its readCh
\* (of capacity 1) and ends
SrStray ==
    /\ \E n \in ReadSizes :
          \/ /\ sr.stray > 0
             /\ sr' = [sr EXCEPT !.stray = @ - 1, !.moved = @ \/ n > 0]
          \/ /\ sr.old > 0
             /\ sr' = [sr EXCEPT !.old = @ - 1, !.moved = @ \/ n > 0]
    /\ SrFrame

\* the next turn of the retry loop after a stall or a cancellation:
\* tmpf.Seek(0, io.SeekStart), newStallDetectReader(u.ctx, tmpf) on the
\* same spool and the same context; the reads left behind (stray) are now
\* those of an earlier turn (old)
SrRetry ==
    /\ sr.pc = "idle"
    /\ sr.out.err \in {"ErrUploadStalled", "ctxErr"}
    /\ sr' = [sr EXCEPT !.bytesInPeriod = 0, !.window = 0, !.closed = FALSE,
                        !.out = NoOut, !.old = @ + sr.stray, !.stray = 0,
                        !.moved = FALSE, !.first = "none"]
    /\ SrFrame

\* time passes
SrTick ==
    /\ sr.window < Late \/ (sr.pc = "select" /\ sr.timer < stallTimeout)
    /\ sr' = [sr EXCEPT !.window = Min(@ + ClockStep, Late),
                        !.timer = IF sr.pc = "select"
                                  THEN Min(@ + ClockStep, stallTimeout) ELSE @]
    /\ SrFrame

\* case <-timer.C
SrTimer ==
    /\ sr.pc = "select"
    /\ sr.timer = stallTimeout
    /\ IF Stalled(sr.bytesInPeriod)
       THEN sr' = SrReturn(sr, 0, "ErrUploadStalled", "timer", TRUE,
                           sr.bytesInPeriod, NoRes, FALSE)
       ELSE sr' = [sr EXCEPT !.pc = "drain",
                             !.bytesInPeriod = 0,
                             !.window = 0,
                             !.out = [NoOut EXCEPT !.via = "timer",
                                                   !.late = TRUE,
                                                   !.counted = sr.bytesInPeriod,
                                                   !.reset = TRUE]]
    /\ SrFrame

\* res := <-readCh after the timer: no timer, no ctx.Done() in this receive
SrDrain ==
    /\ sr.pc = "drain"
    /\ sr.inner = "ready"
    /\ sr' = SrReturn([sr EXCEPT !.bytesInPeriod = @ + sr.res.n],
                      sr.res.n, sr.res.err, "timer", TRUE, sr.out.counted,
                      sr.res, TRUE)
    /\ SrFrame

\* case res := <-readCh
SrRecv ==
    /\ sr.pc = "select"
    /\ sr.inner = "ready"
    /\ LET b == sr.bytesInPeriod + sr.res.n
           late == sr.window > stallTimeout
       IN  sr' = IF late /\ Stalled(b)
                 THEN SrReturn([sr EXCEPT !.bytesInPeriod = b], sr.res.n,
                               "ErrUploadStalled", "read", TRUE, b, sr.res, FALSE)
                 ELSE IF late
                 THEN SrReturn([sr EXCEPT !.bytesInPeriod = 0, !.window = 0],
                               sr.res.n, sr.res.err, "read", TRUE, b, sr.res, TRUE)
                 ELSE SrReturn([sr EXCEPT !.bytesInPeriod = b], sr.res.n,
                               sr.res.err, "read", FALSE, b, sr.res, FALSE)
    /\ SrFrame

\* the caller's context is cancelled
SrCancel ==
    /\ ~sr.cancelled
    /\ sr' = [sr EXCEPT !.cancelled = TRUE]
    /\ SrFrame

\* case <-sr.ctx.Done()
SrCtxDone ==
    /\ sr.pc = "select"
    /\ sr.cancelled
    /\ sr' = SrReturn(sr, 0, "ctxErr", "ctx", sr.window > stallTimeout,
                      sr.bytesInPeriod, NoRes, FALSE)
    /\ SrFrame

\* Close: close(sr.closed)
SrClose ==
    /\ ~sr.closed
    /\ sr' = [sr EXCEPT !.closed = TRUE]
    /\ SrFrame

\* case <-sr.closed
SrClosed ==
    /\ sr.pc = "select"
    /\ sr.closed
    /\ sr' = SrReturn(sr, 0, "ErrClosedPipe", "closed", sr.window > stallTimeout,
                      sr.bytesInPeriod, NoRes, FALSE)
    /\ SrFrame

NextStall ==
    \/ SrRead
    \/ SrInner
    \/ SrStray
    \/ SrRetry
    \/ SrTick
    \/ SrTimer
    \/ SrDrain
    \/ SrRecv
    \/ SrCancel
    \/ SrCtxDone
    \/ SrClose
    \/ SrClosed

\* no upload under way: a reader just made by newStallDetectReader
InitStall ==
    /\ req = PutOnly
    /\ grain = 1
    /\ stream = <<>>
    /\ ln = Unknown
    /\ env = {}
    /\ obs = FALSE
    /\ Quiet

SpecStall == InitStall /\ [][NextStall]_vars

\* the steps of Read once it is in its select or its receive
SrStep == SrTimer \/ SrDrain \/ SrRecv \/ SrCtxDone \/ SrClosed

\* time passes and the goroutine in Read is scheduled; nothing makes the
\* underlying reader return
FairStall == WF_vars(SrTick) /\ WF_vars(SrStep)

SpecStallLive == InitStall /\ [][NextStall]_vars /\ FairStall

(* awsReq on its own: the four calls made of it (awsInit, awsUploadPart,   *)
(* awsFinalize, awsAbort), the signing RPC and the request to the storage. *)
(* A header name is the sequence of its bytes.                             *)

Host == <<104, 111, 115, 116>>
ContentType == <<67, 111, 110, 116, 101, 110, 116, 45, 84, 121, 112, 101>>
XAmzAcl == <<88, 45, 65, 109, 122, 45, 65, 99, 108>>
XAmzDate == <<88, 45, 65, 109, 122, 45, 68, 97, 116, 101>>
XAmzContentSha256 ==
    <<88, 45, 65, 109, 122, 45, 67, 111, 110, 116, 101, 110, 116, 45, 83, 104,
      97, 50, 53, 54>>
Authorization == <<65, 117, 116, 104, 111, 114, 105, 122, 97, 116, 105, 111, 110>>
\* "x-"
XDash == <<120, 45>>

\* strings.ToLower
ToLower(s) == [i \in 1..Len(s) |-> IF s[i] \in 65..90 THEN s[i] + 32 ELSE s[i]]

\* strings.HasPrefix
HasPrefix(s, p) == Len(s) >= Len(p) /\ SubSeq(s, 1, Len(p)) = p

\* textproto.CanonicalMIMEHeaderKey: a capital at the start and after each
\* '-', small letters elsewhere
CanonicalKey(s) ==
    [i \in 1..Len(s) |->
        IF i = 1 \/ s[i - 1] = 45
        THEN (IF s[i] \in 97..122 THEN s[i] - 32 ELSE s[i])
        ELSE (IF s[i] \in 65..90 THEN s[i] + 32 ELSE s[i])]

\* a header value: a string, a timestamp or the hash of a body
Str(s) == <<s, <<>>>>
Ts(t) == <<"ts", <<t>>>>
Sha256(data) == <<"sha256", data>>
Sig(i) == <<"sig", <<i>>>>
\* the values the signing RPC may return
Sigs == {Sig(0), Sig(1)}

\* http.Header.Set and http.Header.Get
HeaderSet(h, key, v) ==
    [x \in DOMAIN h \cup {CanonicalKey(key)} |->
        IF x = CanonicalKey(key) THEN v ELSE h[x]]
HeaderGet(h, key) ==
    IF CanonicalKey(key) \in DOMAIN h THEN h[CanonicalKey(key)] ELSE Str("")

\* a < b, byte by byte
StrLess(a, b) ==
    \E i \in 1..(Min(Len(a), Len(b)) + 1) :
        /\ SubSeq(a, 1, i - 1) = SubSeq(b, 1, i - 1)
        /\ \/ i > Len(a) /\ i <= Len(b)
           \/ i <= Len(a) /\ i <= Len(b) /\ a[i] < b[i]

\* (variant: signHead is left in the order of the map)
sortSkipped(names) == names

\* sort.Strings
RECURSIVE sortStrings(_)
sortStrings(names) ==
    IF names = <<>> THEN <<>>
    ELSE LET m == CHOOSE i \in 1..Len(names) :
                      \A j \in 1..Len(names) : ~StrLess(names[j], names[i])
             rest == [j \in 1..(Len(names) - 1) |->
                          IF j < m THEN names[j] ELSE names[j + 1]]
         IN  <<names[m]>> \o sortStrings(rest)

\* for k := range headers: the keys in any order
Orders(S) ==
    {o \in [1..Cardinality(S) -> S] : \A x \in S : \E i \in DOMAIN o : o[i] = x}

\* signHead := []string{"host"}; the lower-cased keys that start with "x-"
RECURSIVE signHeadOf(_)
signHeadOf(order) ==
    IF order = <<>> THEN <<Host>>
    ELSE LET front == signHeadOf(SubSeq(order, 1, Len(order) - 1))
             low == ToLower(order[Len(order)])
         IN  IF HasPrefix(low, XDash) THEN Append(front, low) ELSE front

\* a line of awsAuthStr
Line(kind, name, v, names) == [kind |-> kind, name |-> name, v |-> v, names |-> names]
Text(v) == Line("text", <<>>, v, <<>>)

\* h+":"+headers.Get(h) for every name signed but host
ValueLines(h, names) ==
    LET others == SelectSeq(names, LAMBDA x : x # Host)
    IN  [i \in 1..Len(others) |-> Line("header", others[i], HeaderGet(h, others[i]), <<>>)]

\* awsAuthStr, before strings.Join(awsAuthStr, "\n")
awsAuthStr(method, query, h, hash, names) ==
    <<Text(Str("AWS4-HMAC-SHA256")), Text(HeaderGet(h, XAmzDate)), Text(Str("scope")),
      Text(Str(method)), Text(Str("path")), Text(Str(query)),
      Line("header", Host, Str("awshost"), <<>>)>>
    \o ValueLines(h, names)
    \o <<Text(Str("")), Line("names", <<>>, Str(""), names), Line("hash", <<>>, hash, <<>>)>>

\* the callers of awsReq: method, query, body (nil or not), headers
Sites == {"awsInit", "awsUploadPart", "awsFinalize", "awsAbort"}
SiteMethod(site) ==
    CASE site = "awsInit" -> "POST"
      [] site = "awsUploadPart" -> "PUT"
      [] site = "awsFinalize" -> "POST"
      [] site = "awsAbort" -> "DELETE"
SiteQuery(site) ==
    CASE site = "awsInit" -> "uploads="
      [] site = "awsUploadPart" -> "partNumber=1&uploadId=id"
      [] site = "awsFinalize" -> "uploadId=id"
      [] site = "awsAbort" -> "uploadId=id"
SiteHeaders(site) ==
    CASE site = "awsInit" ->
            [x \in {ContentType, XAmzAcl} |->
                IF x = ContentType THEN Str("mimeType") ELSE Str("private")]
      [] site = "awsFinalize" -> [x \in {ContentType} |-> Str("text/xml")]
      [] OTHER -> [x \in {} |-> Str("")]
NoBody == [nil |-> TRUE, data |-> <<>>]
SomeBody(data) == [nil |-> FALSE, data |-> data]
SiteBodies(site) ==
    CASE site = "awsUploadPart" -> {SomeBody(<<>>), SomeBody(<<1>>)}
      [] site = "awsFinalize" -> {SomeBody(<<7>>)}
      [] OTHER -> {NoBody}

\* awsReq returns
ReqReturn(r, out) == [r EXCEPT !.pc = "idle", !.outs = Append(@, out)]

ReqFrame ==
    UNCHANGED <<req, ln, stream, grain, src, u, pc, strategy, partNo, cnt,
                joiner, errCh, parts, puts, finals, finState, aborts,
                tagOrder, notified, ret, faults, env, source, progress, nwg,
                obs, sr, tg>>

\* awsReq up to the signing RPC: the length and the hash of the body, the
\* two X-Amz headers, the names to sign, awsAuthStr
awsReqCall(site) ==
    /\ rq.pc = "idle"
    /\ rq.calls < MaxCalls
    /\ \E body \in SiteBodies(site), io \in {"nil", "ErrIO"} :
          LET hash == Sha256(body.data)
              \* time.Now(): a later time on every call
              h == HeaderSet(HeaderSet(SiteHeaders(site), XAmzContentSha256, hash),
                             XAmzDate, Ts(rq.calls + 1))
              called == [rq EXCEPT !.calls = @ + 1, !.site = site,
                                   !.method = SiteMethod(site),
                                   !.query = SiteQuery(site),
                                   !.body = body, !.hdr = SiteHeaders(site),
                                   !.hash = <<>>, !.canon = <<>>]
          IN  IF io # "nil"
              THEN \* body.Seek or io.Copy(h, body) fails
                   /\ ~body.nil
                   /\ rq' = ReqReturn(called, io)
              ELSE \E order \in Orders(DOMAIN h) :
                      rq' = [called EXCEPT
                                !.pc = "sign", !.hdr = h, !.hash = hash,
                                !.canon = awsAuthStr(SiteMethod(site), SiteQuery(site),
                                              h, hash, sortStrings(signHeadOf(order)))]
    /\ ReqFrame

\* (variant: the error of Apply is ignored)
AfterSignIgnored(err) == "do"

\* err := Apply(...); if err != nil { return nil, err }
AfterSign(err) == IF err = "nil" THEN "do" ELSE "idle"

\* the signing RPC returns: an error, or the value of Authorization
awsReqSign ==
    /\ rq.pc = "sign"
    /\ \E err \in {"nil", "ErrSign"}, s \in Sigs :
          LET auth == IF err = "nil" THEN s ELSE Str("")
              rpc == [call |-> rq.calls, arg |-> rq.canon, err |-> err, auth |-> auth]
              signed == [rq EXCEPT !.rpcs = Append(@, rpc)]
          IN  rq' = IF AfterSign(err) = "idle"
                    THEN ReqReturn(signed, err)
                    ELSE [signed EXCEPT !.pc = "do",
                                        !.hdr = HeaderSet(@, Authorization, auth)]
    /\ ReqFrame

\* what UploadHttpClient.Do returns, and what awsReq makes of it
ReqAnswers == {"neterr", "4xx", "3xx", "2xx"}

\* http.NewRequestWithContext, req.Header[k] = v, UploadHttpClient.Do
awsReqDo ==
    /\ rq.pc = "do"
    /\ \E a \in ReqAnswers :
          rq' = ReqReturn([rq EXCEPT !.sent =
                              Append(@, [call |-> rq.calls, method |-> rq.method,
                                         query |-> rq.query, hdr |-> rq.hdr,
                                         body |-> rq.body])],
                          IF a \in {"neterr", "4xx"} THEN a ELSE "nil")
    /\ ReqFrame

InitSign ==
    /\ req = Cloud
    /\ grain = MiB
    /\ stream = <<>>
    /\ ln = Unknown
    /\ env = {}
    /\ obs = FALSE
    /\ Quiet

NextSign ==
    \/ \E site \in Sites : awsReqCall(site)
    \/ awsReqSign
    \/ awsReqDo

SpecSign == InitSign /\ [][NextSign]_vars

(* The part-tag table alone: the gate of awsUpload lets ParallelUploads  *)
(* parts run, each part that ends stores its tag with setTag             *)
MaxTagParts == TagCapStep + 1
TableParallels == {1, 2, DefaultParallelUploads, TagCapStep + 1}
TagOf(k) == <<k>>

TableFrame ==
    UNCHANGED <<req, ln, stream, grain, src, u, pc, strategy, partNo, cnt,
                joiner, errCh, parts, puts, finals, finState, aborts,
                tagOrder, notified, ret, faults, env, source, progress, nwg,
                obs, sr, rq>>

\* ParallelUploads is a public field: the caller sets it before the upload
TableConfigure ==
    /\ ~tg.set
    /\ \E p \in TableParallels :
          tg' = [tg EXCEPT !.ParallelUploads = p, !.set = TRUE]
    /\ TableFrame

\* nwg.Wait(u.ParallelUploads - 1); partNo += 1; nwg.Add(1); go awsUploadPart
TableDispatch ==
    /\ tg.set
    /\ ~tg.panicked
    /\ tg.partNo < MaxTagParts
    /\ Cardinality(tg.running) <= tg.ParallelUploads - 1
    /\ tg' = [tg EXCEPT !.partNo = @ + 1, !.running = @ \cup {tg.partNo + 1}]
    /\ TableFrame

\* the PUT of part k has been answered: u.setTag(partNo, tag), then the
\* deferred nwg.Done().  The schedules followed: the oldest part in flight
\* ends first, but for MaxOvertakes times the newest part in flight does.
TableSetTag(k) ==
    /\ k \in tg.running
    /\ ~tg.panicked
    /\ LET overtakes == \E j \in tg.running : j < k
       IN  /\ overtakes => /\ tg.overtakes < MaxOvertakes
                           /\ \A j \in tg.running : j <= k
           /\ IF setTagPanics(tg, k)
              THEN tg' = [tg EXCEPT !.panicked = TRUE]
              ELSE tg' = [setTag(tg, k, TagOf(k)) EXCEPT
                             !.running = @ \ {k},
                             !.stored = @ \cup {k},
                             !.overtakes = IF overtakes THEN @ + 1 ELSE @]
    /\ TableFrame

InitTable ==
    /\ req = Cloud
    /\ grain = MiB
    /\ stream = <<>>
    /\ ln = Unknown
    /\ env = {}
    /\ obs = FALSE
    /\ Quiet

NextTable ==
    \/ TableConfigure
    \/ TableDispatch
    \/ \E k \in 1..MaxTagParts : TableSetTag(k)

SpecTable == InitTable /\ [][NextTable]_vars

(* Selection alone: every descriptor, every boundary length *)
InitSel ==
    /\ req \in Descriptors
    /\ ln \in Lengths
    /\ stream = <<>>
    /\ grain = 1
    /\ env = AllFaults
    /\ obs = FALSE
    /\ Quiet

NextSel == PrepareUpload \/ Do

SpecSel == InitSel /\ [][NextSel]_vars

---------------------------------------------------------------------------
(* Properties *)

Workers == 1..MaxParts
InFlight == {k \in Workers : parts[k].pc \notin {"idle", "exited"}}
\* parts whose request was answered by a 2xx / by another status
OkParts == {k \in Workers : parts[k].res = "ok"}
RefusedParts == {k \in Workers : parts[k].res = "refused"}
TriedParts == {k \in Workers : parts[k].tries > 0}
BrokenParts == {k \in Workers : parts[k].res \in {"failed", "readerr", "tmperr"}}
Returned == pc = "done" /\ ret.set
ReturnedOk == Returned /\ ret.err = Nil

\* bodies of the answered part requests, by ascending part number
RECURSIVE BodiesUpTo(_)
BodiesUpTo(k) ==
    IF k = 0 THEN <<>>
    ELSE BodiesUpTo(k - 1) \o (IF k \in OkParts THEN parts[k].body ELSE <<>>)

\* C1: Do takes exactly the branch the descriptor and the length call for:
\* chunked PUT when blocksize > 0; else cloud multipart when awsid is set and
\* the length is unknown or above 64 MiB; else single-shot PUT when the
\* length is known and at most 5 GiB; else the configuration error.
C1_Selection ==
    strategy # "none" =>
        /\ strategy =
              IF u.blocksize > 0 THEN "chunked"
              ELSE IF u.awsid # "" /\ (~ln.known \/ ln.mib > 64
                                       \/ (ln.mib = 64 /\ ln.rem > 0)) THEN "aws"
              ELSE IF ln.known /\ (ln.mib < 5120 \/ (ln.mib = 5120 /\ ln.rem = 0))
                   THEN "put"
              ELSE "cfgerr"
        /\ (strategy = "cfgerr") = (ret.set /\ ret.err = Err("ErrConfig", 0))
        /\ (strategy = "cfgerr") = (pc = "done")

\* a complete cloud group and exactly 64 MiB: single-shot PUT
C1_Witness ==
    strategy = "put" /\ u.awsid # "" /\ ln = Known(64, 0)

\* C2 (as claimed): a descriptor with a positive Blocksize is uploaded by
\* chunked PUT, whatever else it carries.
C2_BlocksizeWins ==
    (strategy # "none" /\ req.Blocksize.t = "number" /\ req.Blocksize.n > 0)
        => strategy = "chunked"

CloudFields(r) ==
    {r.Cloud_Aws_Bucket_Upload__, r.Key, r.Bucket_Endpoint.Region,
     r.Bucket_Endpoint.Name, r.Bucket_Endpoint.Host}

\* C3 (as claimed): with PUT and Complete strings, PrepareUpload returns
\* without error and without panic, and leaves awsid empty when a cloud
\* field is missing or ill-typed.
C3_PermissiveParse ==
    (pc # "prepare" /\ IsStr(req.PUT) /\ IsStr(req.Complete)) =>
        /\ pc # "panic"
        /\ ret.err # Err("ErrParse", 0)
        /\ ((req.Bucket_Endpoint.t # "object" \/ \E v \in CloudFields(req) : ~IsStr(v))
               => u.awsid = "")

\* C4: the gate counter is the number of part goroutines started and not
\* finished, and never exceeds ParallelUploads.
C4_BoundedConcurrency ==
    strategy \in {"chunked", "aws"} =>
        /\ cnt = Cardinality(InFlight)
        /\ cnt <= u.ParallelUploads

\* the gate is full and holds the dispatch loop back
C4_Witness ==
    pc = "asleep" /\ u.ParallelUploads = 2 /\ cnt = 2 /\ partNo = 2

\* C5 (as claimed): when Do returns without error, the bodies of the
\* requests that were sent successfully (answered by a 2xx), by ascending
\* part number, are the source stream.
C5_RoundTrip ==
    ReturnedOk =>
        IF strategy = "put" THEN puts = <<Sent(stream, "2xx")>>
        ELSE BodiesUpTo(MaxParts) = stream

\* C6 (as claimed): an empty stream is uploaded as exactly one part or
\* request, with an empty body, before the completion call.
C6_EmptyOnePart ==
    (stream = <<>> /\ notified > 0) =>
        IF strategy = "put" THEN Len(puts) = 1 /\ puts[1].body = <<>>
        ELSE /\ Cardinality(TriedParts) = 1
             /\ \A k \in TriedParts : parts[k].res = "ok" /\ parts[k].body = <<>>

\* C7: every finalize body lists part numbers 1..N in ascending order, each
\* with the tag answered for that part (none, when the answer carried none).
C7_FinalizeAscending ==
    \A i \in 1..Len(finals) :
        finals[i] = [n \in 1..Cardinality(OkParts \cup RefusedParts) |->
                        <<n, IF n \in OkParts THEN Etag(parts[n].body) ELSE <<>> >>]

\* three tagged parts, completed in the order 3, 1, 2
C7_Witness ==
    /\ Len(finals) = 1
    /\ Len(finals[1]) = 3
    /\ tagOrder = <<3, 2>>

\* C8: no part is tried more than 5 times; a part is given up only after 5
\* failed tries, one that is answered within them counts as done; and when
\* no part was given up and no read failed, the orchestrator goes on to
\* finalize / complete.
C8_FiveAttempts ==
    /\ \A k \in Workers : parts[k].tries <= 5
    /\ \A k \in Workers : parts[k].res = "failed" => parts[k].tries = 5
    /\ \A k \in Workers : parts[k].res = "ok" => Err("ErrPart", k) \notin
                               {errCh[i] : i \in 1..Len(errCh)} \cup {ret.err}
    /\ (Returned /\ strategy \in {"chunked", "aws"} /\ partNo > 0 /\ BrokenParts = {})
          => (notified = 1 \/ finState = "failed")

\* four failed tries, the fifth answered, and the upload returns no error
C8_Witness ==
    ReturnedOk /\ \E k \in OkParts : parts[k].tries = 5

\* C9: once a part has failed all its tries, what Do returns is a nil response
\* with one error, no completion call was made, and the cloud orchestrator
\* has called awsAbort (once) by then.
C9_ExhaustedFails ==
    (Returned /\ \E k \in Workers : parts[k].res = "failed") =>
        /\ ret.resp = "nil"
        /\ ret.err # Nil
        /\ notified = 0
        /\ finals = <<>>
        /\ aborts = IF strategy = "aws" THEN 1 ELSE 0

\* a cloud part failed five times, awsAbort was called, Do returned its error
C9_Witness ==
    /\ Returned
    /\ strategy = "aws"
    /\ ret.err.kind = "ErrPart"
    /\ parts[ret.err.part].res = "failed"
    /\ aborts = 1

\* C10 (as claimed): complete() is called only once no part goroutine runs,
\* every part sent and the single PUT were answered by a 2xx, none failed,
\* and (cloud) finalize was answered; when a part failed, a read failed or
\* finalize failed, Do returns nil and an error and complete() was not
\* called.
C10_CompleteAfterSuccess ==
    /\ notified > 0 =>
          /\ InFlight = {}
          /\ BrokenParts = {}
          /\ TriedParts = OkParts
          /\ strategy = "aws" => finState = "ok" /\ Len(finals) = 1
          /\ strategy = "put" => Len(puts) = 1 /\ puts[1].status = "2xx"
    /\ (Returned /\ (BrokenParts # {} \/ finState = "failed")) =>
          /\ ret.resp = "nil"
          /\ ret.err # Nil
          /\ notified = 0

\* C11 (as claimed): once the cloud session is initiated, a fatal error (a
\* failed read of the source, a failed spool creation, a part out of tries,
\* a failed finalize) has awsAbort called before Do returns the error.
C11_AbortOnFatal ==
    (Returned /\ strategy = "aws" /\ u.awsuploadid # ""
       /\ (BrokenParts # {} \/ finState = "failed")) => aborts >= 1

\* the worker is between two turns of its retry loop
Looping(k) == parts[k].pc = "attempt" /\ parts[k].attempt > 0
Cancellations == {"cancel", "deadline"}

\* C12 (as claimed): an attempt that fails because the caller's context is
\* cancelled is the last one of its part: the worker does not go on to
\* another turn of the loop.
C12_CancelNotRetried ==
    \A k \in Workers : parts[k].last = "cancel" => ~Looping(k)

\* C13 (as claimed): in both orchestrators, after an attempt that failed on
\* a stall or on a cancellation, the next attempt follows with no delay.
C13_ImmediateRetry ==
    \A k \in Workers :
        (Looping(k) /\ parts[k].last \in {"stall", "cancel"}) => parts[k].slept = 0

\* C14: after attempt a (0-based, a < 4) failed on an error that is neither a
\* stall nor a cancellation, the worker sleeps min(30, 2^a) seconds before
\* the next attempt, in both orchestrators; the worker that gave up after the
\* last attempt slept nothing.
C14_BackoffDelay ==
    \A k \in Workers :
        /\ (Looping(k) /\ parts[k].last \notin {"none", "stall"} \cup Cancellations)
              => /\ parts[k].attempt <= 4
                 /\ parts[k].slept = CASE parts[k].attempt = 1 -> 1
                                       [] parts[k].attempt = 2 -> 2
                                       [] parts[k].attempt = 3 -> 4
                                       [] OTHER -> 8
        /\ parts[k].res = "failed" => parts[k].slept = 0

\* a worker of each orchestrator slept 8 s after its fourth failed attempt
C14_Witness ==
    /\ strategy = "aws"
    /\ \E k \in Workers : /\ Looping(k)
                          /\ parts[k].attempt = 4
                          /\ parts[k].last = "4xx"
                          /\ parts[k].slept = 8

\* C15 (as claimed): a part request answered by a status that is not a 2xx
\* is a failed attempt: the part is not taken as uploaded on that answer.
C15_StatusChecked ==
    \A k \in Workers : parts[k].res # "refused"

\* C16: when awsInit fails (request, status, answer without UploadId),
\* awsUpload returns that error: nothing was read from the source, no part
\* was dispatched, no finalize or abort was sent, complete() was not called.
C16_InitFatal ==
    (ret.set /\ ret.err.kind \in InitErrors) =>
        /\ pc = "done"
        /\ ret.resp = "nil"
        /\ src = stream
        /\ partNo = 0
        /\ \A k \in Workers : parts[k] = Idle
        /\ finals = <<>>
        /\ aborts = 0
        /\ notified = 0
        /\ u.awsuploadid = ""

\* the answer to the Initiate request carried no UploadId
C16_Witness ==
    Returned /\ strategy = "aws" /\ ret.err = Err("ErrInitNoId", 0) /\ stream # <<>>

\* bytes the callback was told of, parts 0..k
RECURSIVE ReportedUpTo(_)
ReportedUpTo(k) ==
    (IF progress[k] = <<>> THEN 0 ELSE progress[k][1])
    + (IF k = 0 THEN 0 ELSE ReportedUpTo(k - 1))

\* C17 (as claimed): the callback is called at most once per part (once for
\* the single PUT), only when that request was answered by a 2xx, with the
\* length of its body; on a successful upload the counts add up to the
\* length of the stream.
C17_ProgressConfirmed ==
    /\ \A k \in 0..MaxParts :
          /\ Len(progress[k]) <= 1
          /\ progress[k] # <<>> =>
                IF k = 0
                THEN /\ puts[1].status = "2xx"
                     /\ progress[k][1] = Len(puts[1].body) * grain
                ELSE /\ parts[k].res = "ok"
                     /\ progress[k][1] = Len(parts[k].body) * grain
    /\ ReturnedOk => ReportedUpTo(MaxParts) = Len(stream) * grain

\* C19 (as claimed): the single-shot orchestrator sends one PUT and never
\* another; when that PUT fails (no answer, or an answer that is not a 2xx)
\* the callback is not called, complete() is not called, and Do returns nil
\* and the error.
C19_PutFatal ==
    strategy = "put" =>
        /\ Len(puts) <= 1
        /\ (puts # <<>> /\ puts[1].status # "2xx") =>
              /\ progress[0] = <<>>
              /\ notified = 0
              /\ Returned => (ret.resp = "nil" /\ ret.err # Nil)

\* C20: Wait(min) returns only while cnt <= min, whatever Add, Done and
\* Wait calls the other goroutines interleave with it: at its return, before
\* the read lock is released, the counter is at most min.
C20_WaitReturnsAtLimit ==
    \A g \in Callers :
        nwg.callers[g].pc = "return" =>
            /\ cnt <= nwg.callers[g].arg
            /\ ~nwg.writer
            /\ nwg.readers >= 1

\* a Wait(0) that slept on the condition returns after a Done
C20_Witness ==
    \E g \in Callers :
        /\ nwg.callers[g].pc = "return"
        /\ nwg.callers[g].parked
        /\ nwg.callers[g].arg = 0
        /\ cnt = 0

\* C18: when the only troubles are a byte source that stops for a while and
\* resumes, and stalled transfers, and no part fails all its 5 tries, the
\* upload ends: Do returns no error and complete() was called once.
C18_StallCompletes ==
    <>(/\ pc = "done"
       /\ (strategy # "cfgerr" /\ \A k \in Workers : parts[k].res # "failed")
             => (ReturnedOk /\ notified = 1))

\* the source paused once, a transfer stalled and was tried again, and the
\* upload was completed
C18_Witness ==
    /\ ReturnedOk
    /\ notified = 1
    /\ source.pauses = 1
    /\ \E k \in OkParts : parts[k].tries > 1

C30_StallOnlyWhenSlow ==
    (sr.pc = "idle" /\ sr.out # NoOut) =>
        /\ sr.out.err = "ErrUploadStalled" =>
              /\ sr.out.late
              /\ sr.out.counted < stallThreshold
        /\ (sr.out.via \in {"timer", "read"} /\ sr.out.late
              /\ sr.out.counted >= stallThreshold) =>
              /\ sr.out.reset
              /\ sr.out.n = sr.out.under.n
              /\ sr.out.err = sr.out.under.err
              /\ sr.out.err \in ReadErrors
              /\ sr.bytesInPeriod = IF sr.out.via = "timer" THEN sr.out.n ELSE 0

\* the timer fired with the threshold reached: the window was reset and the
\* underlying read, once it ended, was returned as it was
C30_Witness ==
    /\ sr.pc = "idle"
    /\ sr.out.via = "timer"
    /\ sr.out.reset
    /\ sr.out.counted = stallThreshold
    /\ sr.out.n = 1
    /\ sr.out.err = "EOF"

\* the parts whose read of the source came to its end without a failure
ReadOk(k) ==
    /\ parts[k].pc \notin {"idle", "start"}
    /\ parts[k].res \notin {"readerr", "tmperr"}

\* C22: the finalize request and the completion call come only after the
\* join: once the orchestrator is past <-errCh, the gate counter is 0 and no
\* part goroutine is left.
C22_JoinBeforeFinalize ==
    (strategy \in {"chunked", "aws"}
       /\ (pc \in {"finalize", "complete"} \/ finals # <<>> \/ notified > 0)) =>
        /\ cnt = 0
        /\ InFlight = {}

\* two cloud parts answered in the order 2, 1, and then the finalize request
C22_Witness ==
    /\ strategy = "aws"
    /\ Len(finals) = 1
    /\ tagOrder = <<2, 1>>
    /\ cnt = 0

\* C23: chunked PUT of L > 0 bytes with block size B: part k reads B bytes
\* while k*B <= L, the part after them reads the rest (fewer than B, maybe
\* none) and ends the loop; only parts that read something are sent, they
\* are the parts 1..ceil(L/B), and each sends what it read.
C23_ChunkCount ==
    (strategy = "chunked" /\ stream # <<>>) =>
        LET B == u.blocksize
            L == Len(stream)
            N == (L + B - 1) \div B
        IN  /\ \A k \in Workers :
                  ReadOk(k) => parts[k].n = IF k * B <= L THEN B
                                            ELSE IF (k - 1) * B < L THEN L - (k - 1) * B
                                            ELSE 0
            /\ \A k \in TriedParts : k <= N /\ parts[k].n > 0
            /\ \A k \in OkParts \cup RefusedParts : Len(parts[k].body) = parts[k].n
            /\ partNo <= L \div B + 1
            /\ (pc \in {"join", "complete"} \/ notified > 0) => partNo = L \div B + 1
            /\ notified > 0 => TriedParts = 1..N

\* 2 bytes in blocks of 2: part 1 is sent, part 2 reads nothing and is not
C23_Witness ==
    /\ strategy = "chunked"
    /\ u.blocksize = 2
    /\ Len(stream) = 2
    /\ notified = 1
    /\ partNo = 2
    /\ TriedParts = {1}
    /\ parts[2].res = "nodata"

\* C24: every request of chunked part k carries Content-Range
\* (k-1)*blocksize .. (k-1)*blocksize + n - 1, on the first turn and on every
\* later one; after a successful upload of L > 0 bytes the ranges of the
\* parts are pairwise disjoint and their union is 0..L-1.
C24_ContentRange ==
    strategy = "chunked" =>
        LET Asked == {k \in Workers : parts[k].range # NoRange}
            R(k) == parts[k].range.start .. parts[k].range.end
        IN  /\ \A k \in Asked :
                  /\ parts[k].range.start = (k - 1) * u.blocksize
                  /\ parts[k].range.end = (k - 1) * u.blocksize + parts[k].n - 1
            /\ \A k \in TriedParts :
                  parts[k].last \notin {"none", "newreq"} => k \in Asked
            /\ (ReturnedOk /\ stream # <<>>) =>
                  /\ \A j, k \in Asked : j # k => R(j) \cap R(k) = {}
                  /\ UNION {R(k) : k \in Asked} = 0 .. (Len(stream) - 1)

\* 2 bytes in blocks of 1; the second part, 1 byte at 1..1, went through on
\* a later turn
C24_Witness ==
    /\ ReturnedOk
    /\ strategy = "chunked"
    /\ u.blocksize = 1
    /\ Len(stream) = 2
    /\ parts[2].tries > 1
    /\ parts[2].range = [start |-> 1, end |-> 1]
    /\ parts[1].range = [start |-> 0, end |-> 0]

\* the part goroutines inside io.CopyN
Readers == {k \in Workers : parts[k].pc = "start"}

\* bytes read from the source by the parts 1..k
RECURSIVE ReadUpTo(_)
ReadUpTo(k) == IF k = 0 THEN 0 ELSE ReadUpTo(k - 1) + parts[k].n

\* what part k read, if the parts read one after the other in ascending order
Slice(k) == SubSeq(stream, ReadUpTo(k - 1) \div grain + 1, ReadUpTo(k) \div grain)

\* C25: at most one part goroutine reads the source at a time, it is the
\* latest part dispatched, every part before it has finished its read, and
\* what a part sends is the slice of the stream that follows the slices of
\* the parts before it.
C25_SerialReads ==
    /\ Cardinality(Readers) <= 1
    /\ Readers \subseteq {partNo}
    /\ \A k \in Workers : parts[k].pc # "idle" => k <= partNo
    /\ \A k \in OkParts \cup RefusedParts : parts[k].body = Slice(k)

\* part 2 is done and gone, part 1 is still uploading, part 3 is reading
C25_Witness ==
    /\ parts[1].pc = "attempt"
    /\ parts[2].pc = "exited"
    /\ parts[2].res = "ok"
    /\ parts[3].pc = "start"

\* C26: the request of every turn of a part, the first and the later ones,
\* carries the whole of what the part read; the parts together have read
\* what is gone from the source, whatever the number of turns.
C26_RetrySameBytes ==
    /\ \A k \in Workers :
          (parts[k].res \in {"ok", "refused"}
             \/ (parts[k].tries > 0 /\ parts[k].last \notin {"none", "newreq", "signerr"}))
          => parts[k].body = Slice(k)
    /\ ReadUpTo(MaxParts) = (Len(stream) - Len(src)) * grain
    /\ src = SubSeq(stream, Len(stream) - Len(src) + 1, Len(stream))

\* two transfers broke, the second at the end of the spool; its request
\* carried the spool from its start
C26_Witness ==
    \E k \in Workers :
        /\ Looping(k)
        /\ parts[k].attempt = 2
        /\ parts[k].last = "neterr"
        /\ parts[k].off = 1
        /\ parts[k].body = <<1>>
        /\ src = <<>>

\* C27 (as claimed): a cloud part k reads at most max(5, min(64*k,
\* MaxPartSize)) MiB, and a part that is not the last one is at least 5 MiB.
C27_PartSizeRule ==
    (strategy = "aws" /\ grain = MiB) =>
        \A k \in Workers :
            /\ ReadOk(k) =>
                  parts[k].n <= MiB * (IF 64 * k < u.MaxPartSize
                                       THEN (IF 64 * k < 5 THEN 5 ELSE 64 * k)
                                       ELSE (IF u.MaxPartSize < 5 THEN 5 ELSE u.MaxPartSize))
            /\ (k < MaxParts /\ parts[k + 1].n > 0) => parts[k].n >= 5 * MiB

\* C28: when awsFinalize is about to build its request, the tag table has
\* one entry per part sent, every part sent was answered, and entry k is
\* the tag answered for part k.
C28_TagsComplete ==
    pc = "finalize" =>
        /\ Len(u.awstags) = Cardinality(TriedParts)
        /\ TriedParts = OkParts
        /\ TriedParts = 1..Len(u.awstags)
        /\ \A k \in 1..Len(u.awstags) :
              /\ u.awstags[k] # <<>>
              /\ u.awstags[k] = Etag(parts[k].body)

\* C29 (as claimed): the error a part reports once its 5 tries are used up
\* is the final one that names the part and the number of tries.
C29_FinalErrorNamesPart ==
    \A k \in Workers :
        (parts[k].res = "failed" /\ parts[k].tries = maxRetries) =>
            /\ \A i \in 1..Len(errCh) :
                  errCh[i].part = k => errCh[i].kind = "ErrExhausted"
            /\ (ret.set /\ ret.err.part = k) => ret.err.kind = "ErrExhausted"

\* C31 (as claimed): a Read that has been entered returns, whether or not
\* the underlying read ever completes.
C31_ReadReturns == (sr.pc # "idle") ~> (sr.pc = "idle")

\* the names signed by the request under way, as listed in awsAuthStr
SignedNames == rq.canon[Len(rq.canon) - 1].names

\* the headers of the request that go by one of the names signed
Named(h, name) == {k \in DOMAIN h : ToLower(k) = name}

\* C32: in awsAuthStr the list of names signed is sorted, it holds "host"
\* and the lower-cased name of every header of the request that starts with
\* "x-" whatever its case, and nothing else; the value lines come in the
\* order of that list, each with the value of its header; the hash of the
\* body is the last line.
C32_CanonicalString ==
    rq.canon # <<>> =>
        LET c == rq.canon
            n == Len(SignedNames)
        IN  /\ \A i, j \in 1..n : i < j => StrLess(SignedNames[i], SignedNames[j])
            /\ {SignedNames[i] : i \in 1..n} =
                  {Host} \cup {ToLower(k) : k \in {x \in DOMAIN rq.hdr :
                                                     HasPrefix(ToLower(x), XDash)}}
            /\ Len(c) = 6 + n + 3
            /\ \A i \in 1..n :
                  /\ c[6 + i].kind = "header"
                  /\ c[6 + i].name = SignedNames[i]
                  /\ SignedNames[i] # Host =>
                        \E k \in Named(rq.hdr, SignedNames[i]) : c[6 + i].v = rq.hdr[k]
            /\ c[Len(c)].kind = "hash"
            /\ c[Len(c)].v = Sha256(rq.body.data)
            /\ c[Len(c)].v = rq.hdr[XAmzContentSha256]

\* the request of awsInit is about to be sent: host, x-amz-acl,
\* x-amz-content-sha256 and x-amz-date are signed, in that order
C32_Witness ==
    /\ rq.pc = "do"
    /\ rq.site = "awsInit"
    /\ SignedNames = <<Host, ToLower(XAmzAcl), ToLower(XAmzContentSha256), ToLower(XAmzDate)>>
    /\ rq.canon[8].v = Str("private")

\* awsAuthStr of a request as it went out, computed from the request
CanonicalOf(r) ==
    LET h == [k \in DOMAIN r.hdr \ {Authorization} |-> r.hdr[k]]
    IN  awsAuthStr(r.method, r.query, h, Sha256(r.body.data),
                   sortStrings(signHeadOf(CHOOSE o \in Orders(DOMAIN h) : TRUE)))

\* C33: every request that went to the storage carries as Authorization
\* the value the signing RPC of the same call returned, and that RPC was
\* given awsAuthStr of this very request; a call whose signing RPC failed
\* has sent nothing and has returned the error of the RPC.
C33_SignedByRpc ==
    /\ \A i \in 1..Len(rq.sent) :
          \E j \in 1..Len(rq.rpcs) :
              /\ rq.rpcs[j].call = rq.sent[i].call
              /\ rq.rpcs[j].err = "nil"
              /\ Authorization \in DOMAIN rq.sent[i].hdr
              /\ rq.sent[i].hdr[Authorization] = rq.rpcs[j].auth
              /\ rq.rpcs[j].arg = CanonicalOf(rq.sent[i])
    /\ \A j \in 1..Len(rq.rpcs) :
          rq.rpcs[j].err # "nil" =>
              /\ \A i \in 1..Len(rq.sent) : rq.sent[i].call # rq.rpcs[j].call
              /\ Len(rq.outs) >= rq.rpcs[j].call
              /\ rq.outs[rq.rpcs[j].call] = rq.rpcs[j].err
    /\ \A i, j \in 1..Len(rq.sent) : i # j => rq.sent[i].call # rq.sent[j].call
    /\ Len(rq.rpcs) <= rq.calls

\* a part request was signed and sent after the signing RPC had failed for
\* the part request before it
C33_Witness ==
    /\ Len(rq.rpcs) = 2
    /\ rq.rpcs[1].err = "ErrSign"
    /\ rq.site = "awsUploadPart"
    /\ Len(rq.sent) = 1
    /\ rq.sent[1].call = 2
    /\ rq.sent[1].method = "PUT"
    /\ rq.sent[1].hdr[Authorization] = Sig(1)

\* the part goroutines whose spool file exists
Spools == {k \in Workers : parts[k].tmpf = "open"}

\* C34 (as claimed): once the orchestrator has returned, the spool file of
\* every part is closed and deleted, at the latest when the part goroutines
\* that were still running have come to their end.
C34_NoSpoolLeft == Returned ~> (Spools = {})

\* C36 (as claimed): once the orchestrator has returned, every part
\* goroutine it started comes to its end: none stays blocked in its send on
\* readCh or errCh.
C36_WorkersEnd == Returned ~> (InFlight = {})

Reported ==
    {k \in Workers :
        \/ parts[k].res = "failed"
        \/ parts[k].res \in {"readerr", "tmperr"} /\ parts[k].pc \in {"done", "exited"}}

C37_QuietAfterAbort ==
    [][aborts > 0 =>
          /\ \A k \in 1..MaxParts : parts'[k].tries = parts[k].tries
          /\ u'.awstags = u.awstags]_vars

\* C40: whatever ParallelUploads is and in whatever order the parts end,
\* setTag(partNo, tag) stays inside the table, and the tag of every part
\* that has ended is at index partNo-1 from then on.
C40_TableSafe ==
    /\ ~tg.panicked
    /\ \A k \in tg.stored : k <= Len(tg.awstags) /\ tg.awstags[k] = TagOf(k)

\* C39: the read of the spool that a turn ended stalled or cancelled has
\* left behind is over when a later turn reads the spool, so that no two
\* turns read the spool at the same time.
C39_OneSpoolRead == sr.inner = "running" => sr.old = 0

\* C26 (with the reads that stalled and cancelled turns leave behind): the
\* first read of every turn of the retry loop begins at the start of the
\* spool, so that the turn sends the bytes the first turn sent.
C26_TurnFromStart == sr.first # "moved"

====
